---- MODULE Spec2Model ----
(***************************************************************************)
(* BMAD-Runner: the status model (internal/status/parser.go), the          *)
(* scheduling query NextWork, modelled over ordered development_status     *)
(* entries, and the loop of `run auto` (cmd/bmad-runner/main.go).  Keys    *)
(* are sequences of characters so that the three key patterns (epicRe,     *)
(* storyRe, retrospectiveRe) are computed, not assumed.                    *)
(***************************************************************************)
EXTENDS Integers, Sequences, FiniteSets, TLC

VARIABLES
    OrderedEntries,  \* SprintStatus.OrderedEntries: sequence of [Key, Value]
    ret,             \* what the last query on this SprintStatus returned
    lastGroups,      \* the group sequence the previous EpicGroups call returned
    data,            \* ParseBytes: the YAML document held by the bytes it is given
    ctx,             \* runAuto: the flags of the command line (c *cli.Context)
    statusFile,      \* runAuto: sprint-status.yaml as it is on disk
    primeDirective,  \* runAuto: whether the prime directive file is on disk
    pc,              \* runAuto: where the command is
    iter,            \* runAuto: iter
    statusData,      \* runAuto: the bytes read at the start of the iteration
    work,            \* runAuto: action, epicKey, storyKey, found of the iteration
    lastStalledStory,\* runAuto: lastStalledStory
    stallCount,      \* runAuto: stallCount
    epicPlanningCount,\* runAuto: epicPlanningCount
    agentRun,        \* runAuto: the call of Runner.Run the command is in
    children,        \* the agent processes started and not yet waited for
    result,          \* runAuto: what the command returned and last printed
    mode,            \* Run: "headless" (NoLiveStatus), "live" or "pty" (gemini-cli)
    runPc,           \* Run: where the call is
    cmd,             \* Run: the child process, [state, exit]
    written,         \* what the child has written to its stdout and stderr
    pipe,            \* Run: stdoutPipe, stderrPipe (or ptmx): unread output
    reader,          \* Run: the reader goroutines, [pc, rest] by stream
    lines,           \* lastLinesBuffer.lines
    mu,              \* lastLinesBuffer.mu: who holds the lock
    pushed,          \* the lines push was called with, in the order of the calls
    ticker,          \* Run: the ticker goroutine, [pc, out]
    cancelled,       \* Run: cancel() was called (ctx.Done() is closed)
    display,         \* Run: the spinner or PhaseDisplay, [indicator, frames]
    forwarded,       \* what was written to os.Stdout and os.Stderr
    runResult        \* Run: what the call returned

\* one SprintStatus and the queries on it
parserVars == <<OrderedEntries, ret, lastGroups>>

\* the run of `run auto`
autoVars == <<ctx, statusFile, primeDirective, pc, iter, statusData, work,
              lastStalledStory, stallCount, epicPlanningCount, agentRun, children,
              result>>

\* one call of Runner.Run
runnerVars ==
    <<mode, runPc, cmd, written, pipe, reader, lines, mu, pushed, ticker, cancelled,
      display, forwarded, runResult>>

vars == <<parserVars, data, autoVars, runnerVars>>

----------------------------------------------------------------------------
(* Bounds of the model *)

\* longest development_status mapping that is explored
MaxEntries == 4

----------------------------------------------------------------------------
(* Strings as character sequences *)

Digits == {"0", "1", "2", "3", "4", "5", "6", "7", "8", "9"}

EpicPrefix == <<"e", "p", "i", "c", "-">>

RetroSuffix == <<"-", "r", "e", "t", "r", "o", "s", "p", "e", "c", "t", "i", "v", "e">>

HasPrefix(s, p) == Len(s) >= Len(p) /\ SubSeq(s, 1, Len(p)) = p

HasSuffix(s, p) == Len(s) >= Len(p) /\ SubSeq(s, Len(s) - Len(p) + 1, Len(s)) = p

\* \d+ matched against the whole of s
AllDigits(s) == Len(s) >= 1 /\ \A i \in 1..Len(s) : s[i] \in Digits

\* epicRe = ^epic-\d+$
epicRe(k) ==
    /\ HasPrefix(k, EpicPrefix)
    /\ AllDigits(SubSeq(k, Len(EpicPrefix) + 1, Len(k)))

\* storyRe = ^\d+-\d+-.+   (unanchored at the end: at least one more character)
storyRe(k) ==
    \E i \in 2..Len(k) : \E j \in (i + 2)..(Len(k) - 1) :
        /\ k[i] = "-"
        /\ k[j] = "-"
        /\ AllDigits(SubSeq(k, 1, i - 1))
        /\ AllDigits(SubSeq(k, i + 1, j - 1))

\* retrospectiveRe = ^epic-\d+-retrospective$
retrospectiveRe(k) ==
    /\ HasPrefix(k, EpicPrefix)
    /\ HasSuffix(k, RetroSuffix)
    /\ Len(k) > Len(EpicPrefix) + Len(RetroSuffix)
    /\ AllDigits(SubSeq(k, Len(EpicPrefix) + 1, Len(k) - Len(RetroSuffix)))

----------------------------------------------------------------------------
(* The keys that are explored *)

Epic1 == <<"e", "p", "i", "c", "-", "1">>

Epic2 == <<"e", "p", "i", "c", "-", "2">>

Story11a == <<"1", "-", "1", "-", "a">>

Story12b == <<"1", "-", "2", "-", "b">>

Retro1 == Epic1 \o RetroSuffix

XFoo == <<"x", "-", "f", "o", "o">>

KeyPool == {Epic1, Epic2, Story11a, Story12b, Retro1, XFoo}

Epic5 == <<"e", "p", "i", "c", "-", "5">>

Epic007 == <<"e", "p", "i", "c", "-", "0", "0", "7">>

\* epic-99999999999999999999: an epic key whose number has 20 digits
EpicHuge ==
    EpicPrefix \o <<"9", "9", "9", "9", "9", "9", "9", "9", "9", "9",
                    "9", "9", "9", "9", "9", "9", "9", "9", "9", "9">>

\* the keys explored for NextEpicNumber
NumKeyPool == {Epic1, Epic2, Epic5, Epic007, EpicHuge, Story11a}

Retro2 == Epic2 \o RetroSuffix

\* the keys explored for the grouping: two retrospectives, and a story whose
\* number is that of another epic than the one it follows
GroupKeyPool == {Epic1, Epic2, Story11a, Retro1, Retro2, XFoo}

AllKeys == KeyPool \cup NumKeyPool \cup GroupKeyPool

----------------------------------------------------------------------------
(* EpicGroups *)

NewGroup(key) ==
    [EpicKey |-> key, RetroKey |-> <<>>, RetroStatus |-> "", Stories |-> <<>>]

\* the case of the switch an entry's key takes, in the order of the cases;
\* tabulated once over the keys that are explored
Shape ==
    [k \in AllKeys |->
        IF epicRe(k) THEN "epic"
        ELSE IF storyRe(k) THEN "story"
        ELSE IF retrospectiveRe(k) THEN "retrospective"
        ELSE "other"]

\* EpicGroupsStep with a story attached to the first group instead of the last
EpicGroupsStepFirstGroup(groups, e) ==
    IF Shape[e.Key] = "epic" THEN Append(groups, NewGroup(e.Key))
    ELSE IF Shape[e.Key] = "story" THEN
        IF Len(groups) > 0
        THEN [groups EXCEPT ![1].Stories = Append(@, e)]
        ELSE groups
    ELSE IF Shape[e.Key] = "retrospective" THEN
        IF Len(groups) > 0
        THEN [groups EXCEPT ![Len(groups)].RetroKey = e.Key,
                            ![Len(groups)].RetroStatus = e.Value]
        ELSE groups
    ELSE groups

\* EpicGroupsStep with the first retrospective of a group kept
EpicGroupsStepFirstRetro(groups, e) ==
    IF Shape[e.Key] = "epic" THEN Append(groups, NewGroup(e.Key))
    ELSE IF Shape[e.Key] = "story" THEN
        IF Len(groups) > 0
        THEN [groups EXCEPT ![Len(groups)].Stories = Append(@, e)]
        ELSE groups
    ELSE IF Shape[e.Key] = "retrospective" THEN
        IF Len(groups) > 0 /\ groups[Len(groups)].RetroKey = <<>>
        THEN [groups EXCEPT ![Len(groups)].RetroKey = e.Key,
                            ![Len(groups)].RetroStatus = e.Value]
        ELSE groups
    ELSE groups

\* one iteration of the range loop: the switch on the entry's key
EpicGroupsStep(groups, e) ==
    IF Shape[e.Key] = "epic" THEN Append(groups, NewGroup(e.Key))
    ELSE IF Shape[e.Key] = "story" THEN
        IF Len(groups) > 0
        THEN [groups EXCEPT ![Len(groups)].Stories = Append(@, e)]
        ELSE groups
    ELSE IF Shape[e.Key] = "retrospective" THEN
        IF Len(groups) > 0
        THEN [groups EXCEPT ![Len(groups)].RetroKey = e.Key,
                            ![Len(groups)].RetroStatus = e.Value]
        ELSE groups
    ELSE groups

RECURSIVE EpicGroupsLoop(_, _)
EpicGroupsLoop(entries, n) ==
    IF n = 0 THEN <<>>
    ELSE EpicGroupsStep(EpicGroupsLoop(entries, n - 1), entries[n])

EpicGroups(entries) == EpicGroupsLoop(entries, Len(entries))

----------------------------------------------------------------------------
(* NextWork *)

\* storyStarted with "drafted" taken for started
storyStartedDrafted(status) ==
    IF status = "backlog" THEN FALSE ELSE TRUE

\* storyStarted: work has begun (anything but backlog/drafted)
storyStarted(status) ==
    IF status = "backlog" \/ status = "drafted" THEN FALSE ELSE TRUE

NoWork == [action |-> "", epicKey |-> <<>>, storyKey |-> <<>>, found |-> FALSE]

\* ScanStories with only "backlog" counted as pending
RECURSIVE ScanStoriesBacklogOnly(_, _)
ScanStoriesBacklogOnly(stories, n) ==
    IF n = 0 THEN [allStoriesDone |-> TRUE, firstPendingStory |-> <<>>]
    ELSE LET prev == ScanStoriesBacklogOnly(stories, n - 1)
             st == stories[n]
         IN  IF st.Value = "backlog"
             THEN [allStoriesDone |-> FALSE,
                   firstPendingStory |->
                       IF prev.firstPendingStory = <<>> THEN st.Key
                       ELSE prev.firstPendingStory]
             ELSE prev

\* ScanStories without the guard on firstPendingStory: the last pending story wins
RECURSIVE ScanStoriesLastPending(_, _)
ScanStoriesLastPending(stories, n) ==
    IF n = 0 THEN [allStoriesDone |-> TRUE, firstPendingStory |-> <<>>]
    ELSE LET prev == ScanStoriesLastPending(stories, n - 1)
             st == stories[n]
         IN  IF st.Value # "done" /\ st.Value # "deferred"
             THEN [allStoriesDone |-> FALSE, firstPendingStory |-> st.Key]
             ELSE prev

\* the inner loop over g.Stories, after its first n iterations
RECURSIVE ScanStories(_, _)
ScanStories(stories, n) ==
    IF n = 0 THEN [allStoriesDone |-> TRUE, firstPendingStory |-> <<>>]
    ELSE LET prev == ScanStories(stories, n - 1)
             st == stories[n]
         IN  IF st.Value # "done" /\ st.Value # "deferred"
             THEN [allStoriesDone |-> FALSE,
                   firstPendingStory |->
                       IF prev.firstPendingStory = <<>> THEN st.Key
                       ELSE prev.firstPendingStory]
             ELSE prev

\* retroComplete without the "completed" synonym
retroCompleteDoneOnly(status) == status = "done"

\* retroComplete := g.RetroStatus == "done" || g.RetroStatus == "completed"
retroComplete(status) == status = "done" \/ status = "completed"

\* nextEpicStarted looking at the stories of the group itself
nextEpicStartedOwnGroup(groups, i) ==
    /\ i + 1 <= Len(groups)
    /\ \E j \in 1..Len(groups[i].Stories) :
           storyStarted(groups[i].Stories[j].Value)

\* nextEpicStarted for the group at (1-based) index i
nextEpicStarted(groups, i) ==
    /\ i + 1 <= Len(groups)
    /\ \E j \in 1..Len(groups[i + 1].Stories) :
           storyStarted(groups[i + 1].Stories[j].Value)

\* NextWorkLoop with the next-epic test applied to every retrospective,
\* not only to an "optional" one
RECURSIVE NextWorkLoopSkipAny(_, _)
NextWorkLoopSkipAny(groups, i) ==
    IF i > Len(groups) THEN NoWork
    ELSE LET g == groups[i]
             scan == ScanStories(g.Stories, Len(g.Stories))
             storyOrNext ==
                 IF ~scan.allStoriesDone
                 THEN [action |-> "story", epicKey |-> g.EpicKey,
                       storyKey |-> scan.firstPendingStory, found |-> TRUE]
                 ELSE NextWorkLoopSkipAny(groups, i + 1)
         IN  IF scan.allStoriesDone /\ g.RetroKey # <<>>
             THEN IF ~retroComplete(g.RetroStatus)
                  THEN IF nextEpicStarted(groups, i)
                       THEN NextWorkLoopSkipAny(groups, i + 1)
                       ELSE [action |-> "retrospective", epicKey |-> g.EpicKey,
                             storyKey |-> <<>>, found |-> TRUE]
                  ELSE storyOrNext
             ELSE storyOrNext

\* the body of the loop over groups, from (1-based) index i on
RECURSIVE NextWorkLoop(_, _)
NextWorkLoop(groups, i) ==
    IF i > Len(groups) THEN NoWork
    ELSE LET g == groups[i]
             scan == ScanStories(g.Stories, Len(g.Stories))
             storyOrNext ==
                 IF ~scan.allStoriesDone
                 THEN [action |-> "story", epicKey |-> g.EpicKey,
                       storyKey |-> scan.firstPendingStory, found |-> TRUE]
                 ELSE NextWorkLoop(groups, i + 1)
         IN  IF scan.allStoriesDone /\ g.RetroKey # <<>>
             THEN IF ~retroComplete(g.RetroStatus)
                  THEN IF g.RetroStatus = "optional" /\ nextEpicStarted(groups, i)
                       THEN NextWorkLoop(groups, i + 1)
                       ELSE [action |-> "retrospective", epicKey |-> g.EpicKey,
                             storyKey |-> <<>>, found |-> TRUE]
                  ELSE storyOrNext
             ELSE storyOrNext

NextWork(entries) == NextWorkLoop(EpicGroups(entries), 1)

----------------------------------------------------------------------------
(* NextEpicNumber *)

DigitChars == <<"0", "1", "2", "3", "4", "5", "6", "7", "8", "9">>

DigitVal(c) == (CHOOSE n \in 1..Len(DigitChars) : DigitChars[n] = c) - 1

\* the decimal digits of the largest int (64 bits): 9223372036854775807
MaxIntDigits ==
    <<"9", "2", "2", "3", "3", "7", "2", "0", "3", "6",
      "8", "5", "4", "7", "7", "5", "8", "0", "7">>

\* the longest prefix of s made of digits (what %d consumes)
RECURSIVE DigitRun(_)
DigitRun(s) ==
    IF Len(s) = 0 \/ s[1] \notin Digits THEN <<>>
    ELSE <<s[1]>> \o DigitRun(Tail(s))

RECURSIVE StripZeros(_)
StripZeros(ds) ==
    IF Len(ds) > 1 /\ ds[1] = "0" THEN StripZeros(Tail(ds)) ELSE ds

\* a > b for digit sequences of equal length
RECURSIVE DigitsGreater(_, _)
DigitsGreater(a, b) ==
    IF Len(a) = 0 THEN FALSE
    ELSE IF DigitVal(a[1]) # DigitVal(b[1]) THEN DigitVal(a[1]) > DigitVal(b[1])
    ELSE DigitsGreater(Tail(a), Tail(b))

\* strconv.ParseInt reports a range error for a value above the largest int
OutOfRange(ds) ==
    LET t == StripZeros(ds)
    IN  \/ Len(t) > Len(MaxIntDigits)
        \/ Len(t) = Len(MaxIntDigits) /\ DigitsGreater(t, MaxIntDigits)

RECURSIVE DecValue(_)
DecValue(ds) ==
    IF Len(ds) = 0 THEN 0
    ELSE 10 * DecValue(SubSeq(ds, 1, Len(ds) - 1)) + DigitVal(ds[Len(ds)])

\* fmt.Sscanf(key, "epic-%d", &n): the literal prefix, then a decimal integer
Sscanf(key) ==
    IF ~HasPrefix(key, EpicPrefix) THEN [err |-> TRUE, n |-> 0]
    ELSE LET ds == DigitRun(SubSeq(key, Len(EpicPrefix) + 1, Len(key)))
         IN  IF Len(ds) = 0 \/ OutOfRange(ds) THEN [err |-> TRUE, n |-> 0]
             ELSE [err |-> FALSE, n |-> DecValue(ds)]

\* max after the first n groups
RECURSIVE NextEpicNumberLoop(_, _)
NextEpicNumberLoop(groups, n) ==
    IF n = 0 THEN 0
    ELSE LET max == NextEpicNumberLoop(groups, n - 1)
             r == Sscanf(groups[n].EpicKey)
         IN  IF ~r.err /\ r.n > max THEN r.n ELSE max

NextEpicNumber(entries) ==
    LET groups == EpicGroups(entries)
    IN  NextEpicNumberLoop(groups, Len(groups)) + 1

----------------------------------------------------------------------------
(* EpicProgress *)

\* CountDone without "deferred"
RECURSIVE CountDoneOnly(_, _)
CountDoneOnly(stories, n) ==
    IF n = 0 THEN 0
    ELSE CountDoneOnly(stories, n - 1) + (IF stories[n].Value = "done" THEN 1 ELSE 0)

RECURSIVE CountDone(_, _)
CountDone(stories, n) ==
    IF n = 0 THEN 0
    ELSE CountDone(stories, n - 1)
         + (IF stories[n].Value = "done" \/ stories[n].Value = "deferred"
            THEN 1 ELSE 0)

RECURSIVE EpicProgressLoop(_, _, _)
EpicProgressLoop(groups, i, epicKey) ==
    IF i > Len(groups) THEN [done |-> 0, total |-> 0]
    ELSE IF groups[i].EpicKey # epicKey
         THEN EpicProgressLoop(groups, i + 1, epicKey)
         ELSE [done |-> CountDone(groups[i].Stories, Len(groups[i].Stories)),
               total |-> Len(groups[i].Stories)]

\* the stories of all the groups from index i on
RECURSIVE StoriesFrom(_, _)
StoriesFrom(groups, i) ==
    IF i > Len(groups) THEN <<>> ELSE groups[i].Stories \o StoriesFrom(groups, i + 1)

\* EpicProgress counted over the stories of every epic
EpicProgressAllStories(entries, epicKey) ==
    LET all == StoriesFrom(EpicGroups(entries), 1)
    IN  [done |-> CountDone(all, Len(all)), total |-> Len(all)]

EpicProgress(entries, epicKey) == EpicProgressLoop(EpicGroups(entries), 1, epicKey)

----------------------------------------------------------------------------
(* The documents that are explored *)

StoryStatuses == {"backlog", "drafted", "in-progress", "done", "deferred"}

RetroStatuses == {"optional", "pending", "done", "completed"}

\* the status tokens an entry is given, by the shape of its key
StatusPool(k) ==
    IF Shape[k] = "story" THEN StoryStatuses
    ELSE IF Shape[k] = "retrospective" THEN RetroStatuses
    ELSE {"backlog"}

EntryPool(keys) ==
    UNION {{[Key |-> k, Value |-> v] : v \in StatusPool(k)} : k \in keys}

KeysOf(d) == {d[i].Key : i \in 1..Len(d)}

\* d with one more entry over keys at its end; the keys of a mapping are unique
Extensions(d, keys) ==
    IF Len(d) >= MaxEntries THEN {}
    ELSE {Append(d, e) : e \in {x \in EntryPool(keys) : x.Key \notin KeysOf(d)}}

----------------------------------------------------------------------------
(* One SprintStatus: its entries are extracted, then it is queried *)

NoRet == [op |-> "none"]

\* the zero yaml.Node: no bytes have been handed to ParseBytes
NoDocument == [Kind |-> "", Value |-> "", Content |-> <<>>, Alias |-> <<>>]

NoFlags == [ignoreStall |-> FALSE, enableEpicPlanning |-> FALSE,
            maxNewEpics |-> 0, maxIterations |-> 0]

\* the bytes of a file: whether the file is there, whether its bytes parse
\* (status.Parse returns no error), and the entries of development_status
NoBytes == [exists |-> FALSE, parses |-> FALSE, entries |-> <<>>]

NoWorkYet == [action |-> "", epicKey |-> <<>>, storyKey |-> <<>>, found |-> FALSE]

NoResult == [returned |-> FALSE, err |-> "", printed |-> ""]

NoCmd == [state |-> "none", exit |-> 0]

NoOutput == [stdout |-> <<>>, stderr |-> <<>>]

NoPipes == [stdout |-> <<>>, stderr |-> <<>>, closed |-> FALSE]

NoReader == [pc |-> "off", rest |-> <<>>]

NoTicker == [pc |-> "off", out |-> <<>>]

NoDisplay ==
    [kind |-> "none", active |-> FALSE, final |-> "", shown |-> 0, frame |-> <<>>]

NoRunResult == [returned |-> FALSE, err |-> ""]

\* Runner.Run has not been called
RunnerNotCalled ==
    /\ mode = ""
    /\ runPc = "idle"
    /\ cmd = NoCmd
    /\ written = NoOutput
    /\ pipe = NoPipes
    /\ reader = [stdout |-> NoReader, stderr |-> NoReader]
    /\ lines = <<>>
    /\ mu = ""
    /\ pushed = <<>>
    /\ ticker = NoTicker
    /\ cancelled = FALSE
    /\ display = NoDisplay
    /\ forwarded = NoOutput
    /\ runResult = NoRunResult

\* `run auto` has not been invoked
AutoNotInvoked ==
    /\ ctx = NoFlags
    /\ statusFile = NoBytes
    /\ primeDirective = FALSE
    /\ pc = "idle"
    /\ iter = 0
    /\ statusData = NoBytes
    /\ work = NoWorkYet
    /\ lastStalledStory = <<>>
    /\ stallCount = 0
    /\ epicPlanningCount = 0
    /\ agentRun = "none"
    /\ children = 0
    /\ result = NoResult

NoGroups == [valid |-> FALSE, groups |-> <<>>]

Unqueried == ret = NoRet /\ lastGroups = NoGroups

\* the SprintStatus before the first entry of development_status is extracted
Init ==
    /\ OrderedEntries = <<>>
    /\ ret = NoRet
    /\ lastGroups = NoGroups
    /\ data = NoDocument
    /\ AutoNotInvoked
    /\ RunnerNotCalled

\* extractOrderedEntries: the next entry of the mapping is appended
ExtractEntry ==
    /\ Unqueried
    /\ OrderedEntries' \in Extensions(OrderedEntries, KeyPool)
    /\ UNCHANGED <<ret, lastGroups, data, autoVars, runnerVars>>

\* s.EpicGroups(); again tells whether this SprintStatus was grouped before
QueryEpicGroups ==
    /\ ret' = [op |-> "EpicGroups", again |-> lastGroups.valid]
    /\ lastGroups' = [valid |-> TRUE, groups |-> EpicGroups(OrderedEntries)]
    /\ UNCHANGED <<OrderedEntries, data, autoVars, runnerVars>>

\* QueryNextWork on a NextWork that drops the entries it has scanned
QueryNextWorkConsuming ==
    /\ ret' = [op |-> "NextWork", out |-> NextWork(OrderedEntries)]
    /\ OrderedEntries' = IF Len(OrderedEntries) > 0 THEN Tail(OrderedEntries)
                         ELSE OrderedEntries
    /\ UNCHANGED <<lastGroups, data, autoVars, runnerVars>>

\* s.NextWork()
QueryNextWork ==
    /\ ret' = [op |-> "NextWork", out |-> NextWork(OrderedEntries)]
    /\ UNCHANGED <<OrderedEntries, lastGroups, data, autoVars, runnerVars>>

\* s.EpicProgress(epicKey)
QueryEpicProgress ==
    \E epicKey \in {Epic1, Epic2} :
        /\ ret' = [op |-> "EpicProgress", arg |-> epicKey,
                   out |-> EpicProgress(OrderedEntries, epicKey)]
        /\ UNCHANGED <<OrderedEntries, lastGroups, data, autoVars, runnerVars>>

\* s.NextEpicNumber()
QueryNextEpicNumber ==
    /\ ret' = [op |-> "NextEpicNumber", out |-> NextEpicNumber(OrderedEntries)]
    /\ UNCHANGED <<OrderedEntries, lastGroups, data, autoVars, runnerVars>>

\* runAuto: s.NextWork() has found work, and s.EpicProgress(epicKey) is
\* called with the epic it returned
QueryWorkProgress ==
    /\ NextWork(OrderedEntries).found
    /\ ret' = [op |-> "WorkProgress", work |-> NextWork(OrderedEntries),
               out |-> EpicProgress(OrderedEntries, NextWork(OrderedEntries).epicKey)]
    /\ UNCHANGED <<OrderedEntries, lastGroups, data, autoVars, runnerVars>>

Next ==
    \/ ExtractEntry
    \/ QueryEpicGroups
    \/ QueryNextWork
    \/ QueryEpicProgress
    \/ QueryNextEpicNumber
    \/ QueryWorkProgress

Spec == Init /\ [][Next]_vars

----------------------------------------------------------------------------
(* The document over the iterations of run auto *)

\* the documents the agent can leave behind by setting the status of one entry
\* (to the same token too: a run that records no progress)
StatusRewrites(d) ==
    UNION {{[d EXCEPT ![i].Value = v] : v \in StatusPool(d[i].Key)} : i \in 1..Len(d)}

\* r.Run(phase, model): the agent process rewrites the status of an entry of the
\* document; the next iteration of the loop parses the document anew
AgentSetsStatus ==
    /\ ret.op = "NextWork"
    /\ OrderedEntries' \in StatusRewrites(OrderedEntries)
    /\ ret' = NoRet
    /\ lastGroups' = NoGroups
    /\ UNCHANGED <<data, autoVars, runnerVars>>

\* r.Run(phase, model): the agent process adds an entry to the document; the next
\* iteration of the loop parses the document anew
AgentAppendsEntry ==
    /\ ret.op = "NextWork"
    /\ OrderedEntries' \in Extensions(OrderedEntries, KeyPool)
    /\ ret' = NoRet
    /\ lastGroups' = NoGroups
    /\ UNCHANGED <<data, autoVars, runnerVars>>

NextRun ==
    \/ ExtractEntry
    \/ QueryNextWork
    \/ AgentSetsStatus
    \/ AgentAppendsEntry

\* the loop of run auto as far as the document goes: parse, query, let the agent run
SpecRun == Init /\ [][NextRun]_vars

----------------------------------------------------------------------------
(* NextEpicNumber over epic keys with gaps, leading zeros and a number beyond
   the range of int *)

ExtractNumEntry ==
    /\ Unqueried
    /\ OrderedEntries' \in Extensions(OrderedEntries, NumKeyPool)
    /\ UNCHANGED <<ret, lastGroups, data, autoVars, runnerVars>>

\* one more entry of the documents explored for the grouping
ExtractGroupEntry ==
    /\ Unqueried
    /\ OrderedEntries' \in Extensions(OrderedEntries, GroupKeyPool)
    /\ UNCHANGED <<ret, lastGroups, data, autoVars, runnerVars>>

NextGroups ==
    \/ ExtractGroupEntry
    \/ QueryEpicGroups

SpecGroups == Init /\ [][NextGroups]_vars

NextNum ==
    \/ ExtractNumEntry
    \/ QueryNextEpicNumber

SpecNum == Init /\ [][NextNum]_vars

----------------------------------------------------------------------------
(* The document read by position, as the claims speak of it *)

Dom == 1..Len(OrderedEntries)

KeyAt(p) == OrderedEntries[p].Key

ValAt(p) == OrderedEntries[p].Value

\* positions of the epic-shaped keys
EpicPos == {p \in Dom : Shape[KeyAt(p)] = "epic"}

\* the epic position whose group the entry at p falls in (0: before any epic)
Owner(p) ==
    IF \E e \in EpicPos : e < p
    THEN CHOOSE e \in EpicPos : e < p /\ \A f \in EpicPos : f < p => f <= e
    ELSE 0

StoryPos(e) == {p \in Dom : Shape[KeyAt(p)] = "story" /\ Owner(p) = e}

RetroPos(e) == {p \in Dom : Shape[KeyAt(p)] = "retrospective" /\ Owner(p) = e}

Resolved(p) == ValAt(p) \in {"done", "deferred"}

HasUnresolved(e) == \E p \in StoryPos(e) : ~Resolved(p)

HasRetro(e) == RetroPos(e) # {}

\* the status of the group's retrospective entry
RetroValue(e) == ValAt(CHOOSE p \in RetroPos(e) : \A q \in RetroPos(e) : q <= p)

\* the epic position that follows e (0: e is the last group)
NextEpic(e) ==
    IF \E f \in EpicPos : f > e
    THEN CHOOSE f \in EpicPos : f > e /\ \A g \in EpicPos : g > e => f <= g
    ELSE 0

\* the following group has a story that is neither backlog nor drafted
NextStarted(e) ==
    /\ NextEpic(e) # 0
    /\ \E p \in StoryPos(NextEpic(e)) : ValAt(p) \notin {"backlog", "drafted"}

\* the group has nothing to schedule
YieldsNoWork(e) ==
    /\ ~HasUnresolved(e)
    /\ \/ ~HasRetro(e)
       \/ RetroValue(e) \in {"done", "completed"}
       \/ RetroValue(e) = "optional" /\ NextStarted(e)

\* the group waits for a retrospective that is not an optional one
NeedsRetro(e) ==
    /\ ~HasUnresolved(e)
    /\ HasRetro(e)
    /\ RetroValue(e) \notin {"done", "completed", "optional"}

EarlierYieldNoWork(e) == \A f \in EpicPos : f < e => YieldsNoWork(f)

RetroResult(e) ==
    [action |-> "retrospective", epicKey |-> KeyAt(e), storyKey |-> <<>>, found |-> TRUE]

NextWorkCalled == ret.op = "NextWork"

\* the position of the epic NextWork returned
RetEpicPos == CHOOSE e \in EpicPos : KeyAt(e) = ret.out.epicKey

----------------------------------------------------------------------------
(* C1 *)

\* C1: NextWork never returns a story of a later epic group while a story of
\* an earlier group (in document order) is neither done nor deferred: the
\* returned story lies in a group, and no group before it has an unresolved story.
C1_PriorityInvariant ==
    (NextWorkCalled /\ ret.out.action = "story") =>
        \E p \in Dom :
            /\ KeyAt(p) = ret.out.storyKey
            /\ Shape[KeyAt(p)] = "story"
            /\ Owner(p) # 0
            /\ \A e \in EpicPos : e < Owner(p) => ~HasUnresolved(e)

\* a story of the second group is returned, the first group's story being resolved
C1_Witness ==
    /\ NextWorkCalled /\ ret.out.action = "story"
    /\ \E p \in Dom :
        /\ KeyAt(p) = ret.out.storyKey
        /\ \E e \in EpicPos : e < Owner(p) /\ StoryPos(e) # {}

----------------------------------------------------------------------------
(* C2 *)

\* the first epic position, in document order, whose group has an unresolved story
FirstUnresolvedEpic ==
    CHOOSE e \in EpicPos :
        HasUnresolved(e) /\ \A f \in EpicPos : HasUnresolved(f) => e <= f

\* the earliest unresolved story position of the group at e
FirstUnresolvedStory(e) ==
    CHOOSE p \in StoryPos(e) :
        ~Resolved(p) /\ \A q \in StoryPos(e) : ~Resolved(q) => p <= q

\* C2: whenever NextWork returns action "story", found is true, epicKey is the
\* first epic group in document order that has an unresolved story, and storyKey
\* is the earliest story of that group that is neither done nor deferred
\* (never a later pending story, never empty).
C2_FirstPendingStory ==
    (NextWorkCalled /\ ret.out.action = "story") =>
        /\ ret.out.found = TRUE
        /\ \E e \in EpicPos : HasUnresolved(e)
        /\ ret.out.epicKey = KeyAt(FirstUnresolvedEpic)
        /\ ret.out.storyKey = KeyAt(FirstUnresolvedStory(FirstUnresolvedEpic))
        /\ ret.out.storyKey # <<>>

\* a story is returned although a later story of the same group is pending too
C2_Witness ==
    /\ NextWorkCalled /\ ret.out.action = "story"
    /\ \E p, q \in Dom :
        /\ p < q
        /\ KeyAt(p) = ret.out.storyKey
        /\ Owner(q) = Owner(p)
        /\ Shape[KeyAt(q)] = "story"
        /\ ~Resolved(q)

----------------------------------------------------------------------------
(* C3 *)

----------------------------------------------------------------------------
(* C4 *)

\* C4: for a group the scan reaches (every earlier group yields no work) whose
\* stories are all resolved and whose retrospective status is "optional":
\* NextWork returns that retrospective if and only if no story of the
\* immediately following group has a status other than backlog or drafted (a
\* missing or story-less following group counts as not started); otherwise the
\* retrospective is skipped and the scan continues with the next group.
C4_OptionalRetrospective ==
    NextWorkCalled =>
        \A e \in EpicPos :
            (/\ EarlierYieldNoWork(e)
             /\ ~HasUnresolved(e)
             /\ HasRetro(e)
             /\ RetroValue(e) = "optional") =>
                /\ (ret.out = RetroResult(e)) <=> ~NextStarted(e)
                /\ NextStarted(e) =>
                       \/ ret.out = NoWork
                       \/ \E f \in EpicPos : f > e /\ KeyAt(f) = ret.out.epicKey

\* an optional retrospective is skipped and a story of the following group returned
C4_Witness ==
    /\ NextWorkCalled /\ ret.out.action = "story"
    /\ \E e \in EpicPos :
        /\ EarlierYieldNoWork(e)
        /\ ~HasUnresolved(e)
        /\ HasRetro(e)
        /\ RetroValue(e) = "optional"
        /\ NextStarted(e)
        /\ KeyAt(NextEpic(e)) = ret.out.epicKey

----------------------------------------------------------------------------
(* C6 *)

\* C6: NextWork returns ("", "", "", false) if and only if every epic group has
\* all stories done or deferred and its retrospective is absent, terminal
\* (done/completed) or an optional one skipped because the next epic has
\* started; a document without epic keys yields found = false.
C6_AllDone ==
    NextWorkCalled =>
        /\ (ret.out = NoWork) <=> (\A e \in EpicPos : YieldsNoWork(e))
        /\ (ret.out.found = FALSE) <=> (ret.out = NoWork)
        /\ EpicPos = {} => ret.out.found = FALSE

\* nothing is found in a document whose optional retrospective is skipped
C6_Witness ==
    /\ NextWorkCalled /\ ret.out = NoWork
    /\ \E e \in EpicPos : HasRetro(e) /\ RetroValue(e) = "optional" /\ NextStarted(e)

----------------------------------------------------------------------------
(* C7 *)

\* the i-th epic position in the order the keys were written
NthEpicPos(i) == CHOOSE e \in EpicPos : Cardinality({f \in EpicPos : f <= e}) = i

\* the last position of the group that starts at epic position e
GroupEnd(e) == IF NextEpic(e) = 0 THEN Len(OrderedEntries) ELSE NextEpic(e) - 1

IsStoryEntry(x) == Shape[x.Key] = "story"

\* the story-shaped entries written between e and the next epic key, in order
StoriesWritten(e) == SelectSeq(SubSeq(OrderedEntries, e + 1, GroupEnd(e)), IsStoryEntry)

RECURSIVE SumLen(_, _)
SumLen(groups, n) ==
    IF n = 0 THEN 0 ELSE SumLen(groups, n - 1) + Len(groups[n].Stories)

EpicGroupsCalled == lastGroups.valid

\* C7: EpicGroups returns one group per epic-shaped key in the order the keys
\* were written, each group's Stories listing its story-shaped entries in
\* document order, and every story or retrospective entry written before the
\* first epic key belongs to no group.
C7_GroupsInDocumentOrder ==
    EpicGroupsCalled =>
        LET groups == lastGroups.groups
        IN  /\ Len(groups) = Cardinality(EpicPos)
            /\ \A i \in 1..Len(groups) :
                   /\ groups[i].EpicKey = KeyAt(NthEpicPos(i))
                   /\ groups[i].Stories = StoriesWritten(NthEpicPos(i))
                   /\ groups[i].RetroKey # <<>> => \E p \in RetroPos(NthEpicPos(i)) :
                          /\ groups[i].RetroKey = KeyAt(p)
                          /\ groups[i].RetroStatus = ValAt(p)
                   /\ groups[i].RetroKey = <<>> <=> RetroPos(NthEpicPos(i)) = {}
            /\ SumLen(groups, Len(groups)) =
                   Cardinality({p \in Dom : Shape[KeyAt(p)] = "story" /\ Owner(p) # 0})

\* two groups are returned from a document that starts with an orphan story
C7_Witness ==
    /\ EpicGroupsCalled
    /\ Len(lastGroups.groups) = 2
    /\ Len(lastGroups.groups[2].Stories) = 1
    /\ \E p \in Dom : Shape[KeyAt(p)] = "story" /\ Owner(p) = 0

----------------------------------------------------------------------------
(* C8 *)

EpicProgressCalled == ret.op = "EpicProgress"

\* C8: for an epic key present in the document EpicProgress returns total = the
\* number of story-shaped entries of that epic's group and done = the number of
\* those whose status is done or deferred (so 0 <= done <= total); for an epic
\* key that is not present it returns (0, 0).
C8_EpicProgressCounts ==
    EpicProgressCalled =>
        IF \E e \in EpicPos : KeyAt(e) = ret.arg
        THEN LET e == CHOOSE f \in EpicPos : KeyAt(f) = ret.arg
             IN  /\ ret.out.total = Cardinality(StoryPos(e))
                 /\ ret.out.done = Cardinality({p \in StoryPos(e) : Resolved(p)})
                 /\ 0 <= ret.out.done
                 /\ ret.out.done <= ret.out.total
        ELSE ret.out = [done |-> 0, total |-> 0]

\* progress 1 of 2 is reported for a group with a deferred and a pending story
C8_Witness ==
    /\ EpicProgressCalled
    /\ ret.out = [done |-> 1, total |-> 2]
    /\ \E p \in Dom : ValAt(p) = "deferred" /\ Shape[KeyAt(p)] = "story"

----------------------------------------------------------------------------
(* C10 *)

----------------------------------------------------------------------------
(* C9 *)

NextEpicNumberCalled == ret.op = "NextEpicNumber"

\* the decimal digits of a natural number
RECURSIVE IntDigits(_)
IntDigits(n) ==
    IF n < 10 THEN <<DigitChars[n + 1]>>
    ELSE IntDigits(n \div 10) \o <<DigitChars[(n % 10) + 1]>>

\* the numeric suffix of the epic key at e, as digits without leading zeros
SuffixDigits(e) == StripZeros(SubSeq(KeyAt(e), Len(EpicPrefix) + 1, Len(KeyAt(e))))

\* a > b for numbers written as digits without leading zeros
NumGreater(a, b) == Len(a) > Len(b) \/ (Len(a) = Len(b) /\ DigitsGreater(a, b))

\* C9: NextEpicNumber returns 1 when the document has no epic keys and otherwise
\* (highest numeric suffix among the epic keys) + 1, whatever the gaps and the
\* order of the epic keys, so that the result is never the number of an
\* existing epic.
C9_NextEpicNumberIsMaxPlusOne ==
    NextEpicNumberCalled =>
        IF EpicPos = {} THEN ret.out = 1
        ELSE /\ ret.out >= 1
             /\ \E e \in EpicPos : SuffixDigits(e) = IntDigits(ret.out - 1)
             /\ \A e \in EpicPos : ~NumGreater(SuffixDigits(e), IntDigits(ret.out - 1))
             /\ \A e \in EpicPos : SuffixDigits(e) # IntDigits(ret.out)

\* C9 for the epic keys whose number fits an int: holds (see C9_NextEpicNumberIsMaxPlusOne)
C9_InRange ==
    (NextEpicNumberCalled /\ \A e \in EpicPos : KeyAt(e) # EpicHuge) =>
        C9_NextEpicNumberIsMaxPlusOne

----------------------------------------------------------------------------
(* C5 *)

\* the epic with key k has an optional retrospective and its following epic has started
OptionalSkipped(k) ==
    \E e \in EpicPos :
        /\ KeyAt(e) = k
        /\ HasRetro(e)
        /\ RetroValue(e) = "optional"
        /\ NextStarted(e)

ReturnsRetroOf(out, k) == out.action = "retrospective" /\ out.epicKey = k

\* C5 as claimed: once an optional retrospective's following epic has a story
\* that is neither backlog nor drafted, NextWork never returns that
\* retrospective in a later state, whatever the agent writes to the document.
C5_MonotonicSkip ==
    [][\A k \in {Epic1, Epic2} :
           OptionalSkipped(k) => ~ReturnsRetroOf(NextWork(OrderedEntries'), k)]_vars

\* C5 as amended: in every state in which an optional retrospective's following
\* epic has a story that is neither backlog nor drafted, NextWork does not
\* return that retrospective; the skip lasts as long as the document says so.
C5_SkipWhileNextEpicStarted ==
    NextWorkCalled =>
        \A k \in {Epic1, Epic2} : OptionalSkipped(k) => ~ReturnsRetroOf(ret.out, k)

\* NextWork was asked while the optional retrospective of a finished epic was
\* skipped and the stories of the following epic were resolved already
C5_Witness ==
    /\ NextWorkCalled
    /\ \E e \in EpicPos :
        /\ OptionalSkipped(KeyAt(e))
        /\ EarlierYieldNoWork(e)
        /\ ~HasUnresolved(e)
        /\ StoryPos(NextEpic(e)) # {}
        /\ \A p \in StoryPos(NextEpic(e)) : Resolved(p)
        /\ ret.out # RetroResult(e)

----------------------------------------------------------------------------
(* ParseBytes: the two yaml.Unmarshal calls and extractOrderedEntries, over
   YAML documents given as trees of yaml.Node.  In these documents a key is a
   string, not a sequence of characters: ParseBytes looks at no character of
   a key of development_status *)

\* longest development_status mapping among the YAML documents
MaxPairs == 2

ScalarNode(v) ==
    [Kind |-> "ScalarNode", Value |-> v, Content |-> <<>>, Alias |-> <<>>]

MappingNode(content) ==
    [Kind |-> "MappingNode", Value |-> "", Content |-> content, Alias |-> <<>>]

SequenceNode ==
    [Kind |-> "SequenceNode", Value |-> "", Content |-> <<>>, Alias |-> <<>>]

\* *anchor: the node refers to the anchored node n
AliasNode(n) ==
    [Kind |-> "AliasNode", Value |-> "", Content |-> <<>>, Alias |-> <<n>>]

DocumentNode(root) ==
    [Kind |-> "DocumentNode", Value |-> "", Content |-> <<root>>, Alias |-> <<>>]

\* the node a decoder reads in place of n
Resolve(n) == IF n.Kind = "AliasNode" THEN n.Alias[1] ELSE n

\* the indexes of the key nodes of a mapping's Content
KeyIndexes(content) == {i \in 1..Len(content) : i % 2 = 1 /\ i + 1 <= Len(content)}

\* the decoder refuses a mapping in which a scalar key is written twice
DuplicateKey(content) ==
    \E i, j \in KeyIndexes(content) :
        /\ i < j
        /\ content[i].Kind = "ScalarNode"
        /\ content[j].Kind = "ScalarNode"
        /\ content[i].Value = content[j].Value

\* n decodes into a Go string
DecodesToString(n) == Resolve(n).Kind = "ScalarNode"

\* n decodes into a map[string]string
DecodesToStringMap(n) ==
    LET m == Resolve(n) IN
        /\ m.Kind = "MappingNode"
        /\ ~DuplicateKey(m.Content)
        /\ \A i \in KeyIndexes(m.Content) :
              DecodesToString(m.Content[i]) /\ DecodesToString(m.Content[i + 1])

\* the fields of SprintStatus that are strings
StringFields == {"generated", "project", "story_location"}

\* yaml.Unmarshal(data, &status) returns an error
UnmarshalStatusFails(doc) ==
    IF Len(doc.Content) = 0 THEN FALSE
    ELSE LET root == doc.Content[1] IN
        \/ root.Kind # "MappingNode"
        \/ DuplicateKey(root.Content)
        \/ \E i \in KeyIndexes(root.Content) :
              \/ ~DecodesToString(root.Content[i])
              \/ /\ Resolve(root.Content[i]).Value \in StringFields
                 /\ ~DecodesToString(root.Content[i + 1])
              \/ /\ Resolve(root.Content[i]).Value = "development_status"
                 /\ ~DecodesToStringMap(root.Content[i + 1])

\* the inner loop of extractOrderedEntries after n pairs of valNode.Content
EntriesLoop(content, n) ==
    LET F[j \in 0..n] ==
            IF j = 0 THEN <<>>
            ELSE LET k == content[2 * j - 1]
                     v == content[2 * j]
                 IN  IF k.Kind # "ScalarNode" \/ v.Kind # "ScalarNode" THEN F[j - 1]
                     ELSE Append(F[j - 1], [Key |-> k.Value, Value |-> v.Value])
    IN  F[n]

\* the outer loop of extractOrderedEntries from index i of root.Content (from 1)
RECURSIVE FindDevelopmentStatus(_, _)
FindDevelopmentStatus(root, i) ==
    IF i + 1 > Len(root.Content)
    THEN [err |-> "development_status key not found", entries |-> <<>>]
    ELSE LET keyNode == root.Content[i]
             valNode == root.Content[i + 1]
         IN  IF keyNode.Kind # "ScalarNode" \/ keyNode.Value # "development_status"
             THEN FindDevelopmentStatus(root, i + 2)
             ELSE IF valNode.Kind # "MappingNode"
             THEN [err |-> "development_status must be a mapping", entries |-> <<>>]
             ELSE [err |-> "",
                   entries |-> EntriesLoop(valNode.Content, Len(valNode.Content) \div 2)]

extractOrderedEntries(doc) ==
    LET root == IF Len(doc.Content) > 0 THEN doc.Content[1] ELSE doc IN
        IF root.Kind # "MappingNode"
        THEN [err |-> "expected root mapping node", entries |-> <<>>]
        ELSE FindDevelopmentStatus(root, 1)

ParseBytes(doc) ==
    IF UnmarshalStatusFails(doc)
    THEN [err |-> "unmarshaling yaml", entries |-> <<>>]
    ELSE extractOrderedEntries(doc)

(* The YAML documents that are explored *)

\* a key of development_status: a plain scalar, or a complex key (? [a, b])
KeyNodes == {ScalarNode("epic-1"), ScalarNode("1-1-a"), SequenceNode}

\* a value of development_status: a plain scalar, an alias of an anchored
\* scalar (*st), or a nested mapping
ValueNodes ==
    {ScalarNode("backlog"), ScalarNode("done"), AliasNode(ScalarNode("done")),
     MappingNode(<<>>)}

RECURSIVE MappingContents(_)
MappingContents(n) ==
    IF n = 0 THEN {<<>>}
    ELSE {m \o <<k, v>> : m \in MappingContents(n - 1), k \in KeyNodes, v \in ValueNodes}

\* what is written after `development_status:`
DevelopmentStatusNodes ==
    {MappingNode(m) : m \in UNION {MappingContents(n) : n \in 0..MaxPairs}}
        \cup {ScalarNode("none"), SequenceNode,
              AliasNode(MappingNode(<<ScalarNode("epic-1"), ScalarNode("done")>>))}

GeneratedPair == <<ScalarNode("generated"), ScalarNode("2025-01-01")>>

DevelopmentStatusPair(v) == <<ScalarNode("development_status"), v>>

RootContents ==
    {<<>>, GeneratedPair}
        \cup UNION {{DevelopmentStatusPair(v),
                     GeneratedPair \o DevelopmentStatusPair(v),
                     DevelopmentStatusPair(v) \o GeneratedPair}
                    : v \in DevelopmentStatusNodes}

\* empty input, a document that is one scalar or one sequence, and mappings
YamlDocuments ==
    {NoDocument, DocumentNode(ScalarNode("text")), DocumentNode(SequenceNode)}
        \cup {DocumentNode(MappingNode(m)) : m \in RootContents}

\* the bytes ParseBytes is about to be given
InitParse ==
    /\ data \in YamlDocuments
    /\ OrderedEntries = <<>>
    /\ ret = NoRet
    /\ lastGroups = NoGroups
    /\ AutoNotInvoked
    /\ RunnerNotCalled

\* ParseBytes(data): status.OrderedEntries is assigned when no error is returned
CallParseBytes ==
    /\ ret = NoRet
    /\ LET r == ParseBytes(data) IN
          /\ ret' = [op |-> "ParseBytes", err |-> r.err]
          /\ OrderedEntries' = r.entries
    /\ UNCHANGED <<lastGroups, data, autoVars, runnerVars>>

NextParse == CallParseBytes

SpecParse == InitParse /\ [][NextParse]_vars

(* C11 *)

ParseBytesCalled == ret.op = "ParseBytes"

\* the root mapping of the document, <<>> when the document has none
RootPairs ==
    IF Len(data.Content) > 0 /\ data.Content[1].Kind = "MappingNode"
    THEN data.Content[1].Content ELSE <<>>

\* the indexes in RootPairs of the key development_status
DevKeyIndexes ==
    {i \in KeyIndexes(RootPairs) : RootPairs[i].Value = "development_status"}

HasDevelopmentStatus == DevKeyIndexes # {}

\* the node written as the value of development_status
DevNode == RootPairs[(CHOOSE i \in DevKeyIndexes : TRUE) + 1]

\* the entries as authored: the pairs of the mapping, an alias read as the
\* scalar it stands for
DevPairs == DevNode.Content

NumPairs == Len(DevPairs) \div 2

\* pair n is a plain scalar key with a plain scalar value
PlainPair(n) ==
    DevPairs[2 * n - 1].Kind = "ScalarNode" /\ DevPairs[2 * n].Kind = "ScalarNode"

\* the number of plain pairs among the first n pairs
RECURSIVE PlainBefore(_)
PlainBefore(n) ==
    IF n = 0 THEN 0 ELSE PlainBefore(n - 1) + (IF PlainPair(n) THEN 1 ELSE 0)

\* C11: ParseBytes returns an error when the document has no
\* development_status key or when development_status is not a mapping;
\* otherwise, when it returns a SprintStatus, OrderedEntries lists every entry
\* of development_status in the order of the document.
C11_EveryEntryInOrder ==
    ParseBytesCalled =>
        /\ (~HasDevelopmentStatus \/ DevNode.Kind # "MappingNode") => ret.err # ""
        /\ ret.err = "" =>
              /\ Len(OrderedEntries) = NumPairs
              /\ \A n \in 1..Len(OrderedEntries) :
                    /\ OrderedEntries[n].Key = Resolve(DevPairs[2 * n - 1]).Value
                    /\ OrderedEntries[n].Value = Resolve(DevPairs[2 * n]).Value

\* What ParseBytes does keep: it returns an error when the document has no
\* development_status key or when development_status is not written as a
\* mapping; whenever it succeeds, OrderedEntries lists, in the order of the
\* document, exactly the entries whose key and value are both plain scalars;
\* and it succeeds when every entry is such a pair and no key is repeated.
PlainEntriesInOrder ==
    ParseBytesCalled =>
        /\ (~HasDevelopmentStatus \/ DevNode.Kind # "MappingNode") => ret.err # ""
        /\ ret.err = "" =>
              /\ Len(OrderedEntries) = PlainBefore(NumPairs)
              /\ \A n \in 1..NumPairs :
                    PlainPair(n) =>
                        /\ OrderedEntries[PlainBefore(n)].Key = DevPairs[2 * n - 1].Value
                        /\ OrderedEntries[PlainBefore(n)].Value = DevPairs[2 * n].Value
        /\ ( /\ HasDevelopmentStatus
             /\ DevNode.Kind = "MappingNode"
             /\ ~DuplicateKey(DevPairs)
             /\ \A n \in 1..NumPairs : PlainPair(n) ) => ret.err = ""

\* ParseBytes succeeded on a mapping of two entries, one of them written with
\* an alias as its value
AliasEntryParsed ==
    /\ ParseBytesCalled
    /\ ret.err = ""
    /\ NumPairs = 2
    /\ \E n \in 1..NumPairs : DevPairs[2 * n].Kind = "AliasNode"

----------------------------------------------------------------------------
(* run auto: the loop of runAuto, one action per stretch of code between two
   agent processes.  An agent process may leave sprint-status.yaml as it
   likes; between two iterations the file may be written by someone else *)

\* the value given to --max-iterations
MaxIter == 3

\* longest development_status mapping of sprint-status.yaml during run auto
MaxStatusEntries == 3

\* planner.DefaultMaxEpics
DefaultMaxEpics == 5

AutoKeyPool == {Epic1, Story11a, Story12b, Retro1}

\* the status tokens written during run auto, by the shape of the key
AutoStatusPool(k) ==
    IF Shape[k] = "story" THEN {"backlog", "done"}
    ELSE IF Shape[k] = "retrospective" THEN {"optional", "done"}
    ELSE {"backlog"}

\* a sprint-status.yaml that parses into the entries d
StatusBytes(d) == [exists |-> TRUE, parses |-> TRUE, entries |-> d]

\* a sprint-status.yaml whose bytes status.Parse rejects
UnparsableBytes == [exists |-> TRUE, parses |-> FALSE, entries |-> <<>>]

\* d with the status of one entry set (to the token it has, too)
SetOneStatus(d) ==
    UNION {{[d EXCEPT ![i].Value = v] : v \in AutoStatusPool(d[i].Key)} : i \in 1..Len(d)}

\* d with one more entry at its end; the keys of a mapping are unique
AddOneEntry(d) ==
    IF Len(d) >= MaxStatusEntries THEN {}
    ELSE UNION {{Append(d, [Key |-> k, Value |-> v]) : v \in AutoStatusPool(k)}
                : k \in AutoKeyPool \ KeysOf(d)}

\* what one writer can make of the file f: leave it, set the status of an
\* entry, add an entry, break it, or remove it
Writes(f) ==
    IF ~f.parses THEN {f}
    ELSE {f, UnparsableBytes, NoBytes}
         \cup {StatusBytes(d) : d \in SetOneStatus(f.entries) \cup AddOneEntry(f.entries)}

\* --max-new-epics as it is given
maxNewEpicsAsGiven == ctx.maxNewEpics

\* maxNewEpics as runAuto uses it
maxNewEpics ==
    IF ctx.maxNewEpics <= 0 THEN DefaultMaxEpics ELSE ctx.maxNewEpics

\* return err from runAuto, msg being the last line it printed
Return(err, msg) ==
    /\ pc' = "returned"
    /\ result' = [returned |-> TRUE, err |-> err, printed |-> msg]

\* `continue` without iter++
NextIterationSameIter ==
    /\ pc' = "loop"
    /\ iter' = iter
    /\ statusData' = NoBytes
    /\ work' = NoWorkYet

\* the `continue` statements and the end of the loop body: iter++
NextIteration ==
    /\ pc' = "loop"
    /\ iter' = iter + 1
    /\ statusData' = NoBytes
    /\ work' = NoWorkYet

\* runAuto is invoked: flags are read, counters are zero
InitAuto ==
    /\ OrderedEntries = <<>>
    /\ ret = NoRet
    /\ lastGroups = NoGroups
    /\ data = NoDocument
    /\ ctx \in [ignoreStall : BOOLEAN, enableEpicPlanning : BOOLEAN,
                maxNewEpics : {0, 1, 2}, maxIterations : {-1, 0, MaxIter}]
    /\ statusFile = StatusBytes(<<[Key |-> Epic1, Value |-> "backlog"]>>)
    /\ primeDirective \in BOOLEAN
    /\ pc = "loop"
    /\ iter = 0
    /\ statusData = NoBytes
    /\ work = NoWorkYet
    /\ lastStalledStory = <<>>
    /\ stallCount = 0
    /\ epicPlanningCount = 0
    /\ agentRun = "none"
    /\ children = 0
    /\ result = NoResult
    /\ RunnerNotCalled

\* the body of the loop can be entered
InLoop == pc = "loop" /\ iter < ctx.maxIterations

\* the file is there and parses: os.ReadFile and status.Parse return no error
StatusParsed == InLoop /\ statusFile.exists /\ statusFile.parses

\* sprint-status.yaml is written between two iterations by someone else
StatusFileEdited ==
    /\ pc = "loop"
    /\ statusFile' \in Writes(statusFile) \ {statusFile}
    /\ UNCHANGED <<parserVars, data, runnerVars, children, agentRun, ctx, primeDirective, pc, iter, statusData, work,
                   lastStalledStory, stallCount, epicPlanningCount, result>>

\* MaxIterationsReached with a last look at the file: nil when no work is left
MaxIterationsReachedAllDone ==
    /\ pc = "loop"
    /\ iter >= ctx.maxIterations
    /\ IF statusFile.exists /\ statusFile.parses /\ ~NextWork(statusFile.entries).found
       THEN Return("", "All work complete!")
       ELSE Return("max iterations reached", "")
    /\ UNCHANGED <<parserVars, data, runnerVars, children, agentRun, ctx, statusFile, primeDirective, iter, statusData,
                   work, lastStalledStory, stallCount, epicPlanningCount>>

\* the loop condition fails
MaxIterationsReached ==
    /\ pc = "loop"
    /\ iter >= ctx.maxIterations
    /\ Return("max iterations reached", "")
    /\ UNCHANGED <<parserVars, data, runnerVars, children, agentRun, ctx, statusFile, primeDirective, iter, statusData,
                   work, lastStalledStory, stallCount, epicPlanningCount>>

\* os.ReadFile(statusPath) fails
ReadStatusFails ==
    /\ InLoop
    /\ ~statusFile.exists
    /\ Return("reading status file", "")
    /\ UNCHANGED <<parserVars, data, runnerVars, children, agentRun, ctx, statusFile, primeDirective, iter, statusData,
                   work, lastStalledStory, stallCount, epicPlanningCount>>

\* status.Parse(statusPath) fails
ParseStatusFails ==
    /\ InLoop
    /\ statusFile.exists
    /\ ~statusFile.parses
    /\ Return("parsing status file", "")
    /\ UNCHANGED <<parserVars, data, runnerVars, children, agentRun, ctx, statusFile, primeDirective, iter, statusData,
                   work, lastStalledStory, stallCount, epicPlanningCount>>

\* AllWorkComplete with an error returned for the lack of work
AllWorkCompleteAsError ==
    /\ StatusParsed
    /\ ~NextWork(statusFile.entries).found
    /\ ~ctx.enableEpicPlanning
    /\ Return("no work", "")
    /\ UNCHANGED <<parserVars, data, runnerVars, children, agentRun, ctx, statusFile, primeDirective, iter, statusData,
                   work, lastStalledStory, stallCount, epicPlanningCount>>

\* no work is found and epic planning is not enabled
AllWorkComplete ==
    /\ StatusParsed
    /\ ~NextWork(statusFile.entries).found
    /\ ~ctx.enableEpicPlanning
    /\ Return("", "All work complete!")
    /\ UNCHANGED <<parserVars, data, runnerVars, children, agentRun, ctx, statusFile, primeDirective, iter, statusData,
                   work, lastStalledStory, stallCount, epicPlanningCount>>

\* PlanningSessionComplete with an error returned at the cap
PlanningSessionCompleteAsError ==
    /\ StatusParsed
    /\ ~NextWork(statusFile.entries).found
    /\ ctx.enableEpicPlanning
    /\ epicPlanningCount >= maxNewEpics
    /\ Return("planning cap reached", "PrintEpicPlanningSessionComplete")
    /\ UNCHANGED <<parserVars, data, runnerVars, children, agentRun, ctx, statusFile, primeDirective, iter,
                   statusData, work, lastStalledStory, stallCount, epicPlanningCount>>

\* no work is found and the session has planned maxNewEpics epics
PlanningSessionComplete ==
    /\ StatusParsed
    /\ ~NextWork(statusFile.entries).found
    /\ ctx.enableEpicPlanning
    /\ epicPlanningCount >= maxNewEpics
    /\ Return("", "PrintEpicPlanningSessionComplete")
    /\ UNCHANGED <<parserVars, data, runnerVars, children, agentRun, ctx, statusFile, primeDirective, iter, statusData,
                   work, lastStalledStory, stallCount, epicPlanningCount>>

\* the iteration has work or a planning cycle to run: the bytes it read and
\* what NextWork returned are kept for the rest of the iteration
BeginWork(at) ==
    /\ pc' = at
    /\ statusData' = statusFile
    /\ work' = NextWork(statusFile.entries)

\* no work is found, a planning cycle may start
PlanningDue ==
    /\ StatusParsed
    /\ ~NextWork(statusFile.entries).found
    /\ ctx.enableEpicPlanning
    /\ epicPlanningCount < maxNewEpics

\* the file is written whatever was there
PrimeDirectiveOverwritten ==
    /\ PlanningDue
    /\ primeDirective' = ~primeDirective
    /\ Return("", "review the prime directive and re-run")
    /\ UNCHANGED <<parserVars, data, runnerVars, children, agentRun, ctx, statusFile, iter, statusData, work,
                   lastStalledStory, stallCount, epicPlanningCount>>

\* runOneEpicPlanning: EnsurePrimeDirective creates the file; runAuto returns
PrimeDirectiveCreated ==
    /\ PlanningDue
    /\ ~primeDirective
    /\ primeDirective' = TRUE
    /\ Return("", "review the prime directive and re-run")
    /\ UNCHANGED <<parserVars, data, runnerVars, children, agentRun, ctx, statusFile, iter, statusData, work,
                   lastStalledStory, stallCount, epicPlanningCount>>

\* runOneEpicPlanning: the prime directive is there and ReadPrimeDirective
\* fails to read it
ReadPrimeDirectiveFails ==
    /\ PlanningDue
    /\ primeDirective
    /\ Return("reading prime directive", "")
    /\ UNCHANGED <<parserVars, data, runnerVars, children, agentRun, ctx, statusFile, primeDirective, iter,
                   statusData, work, lastStalledStory, stallCount, epicPlanningCount>>

\* runOneEpicPlanning up to r.RunWithPrompt: the prime directive is there, or
\* it could not be created (a warning) and is read as empty
StartEpicPlanning ==
    /\ PlanningDue
    /\ BeginWork("plan-epic")
    /\ UNCHANGED <<parserVars, data, runnerVars, children, agentRun, ctx, statusFile, primeDirective, iter,
                   lastStalledStory, stallCount, epicPlanningCount, result>>

\* the phases runAuto hands to the Runner
Phases ==
    {"plan-epic", "sprint-planning", "retrospective", "create-story", "dev-story",
     "code-review"}

\* Runner.Run up to cmd.Start: the child process is started, or Run returns
\* the error of the start
AgentStart ==
    /\ pc \in Phases
    /\ agentRun = "none"
    /\ agentRun' \in {"started", "agent start failed"}
    /\ children' = (IF agentRun' = "started" THEN children + 1 ELSE children)
    /\ UNCHANGED <<parserVars, data, runnerVars, ctx, statusFile, primeDirective, pc, iter,
                   statusData, work, lastStalledStory, stallCount, epicPlanningCount,
                   result>>

\* Run returns when the child has closed its output, and the child is
\* not waited for
AgentExitUnwaited ==
    /\ agentRun = "started"
    /\ statusFile' \in Writes(statusFile)
    /\ agentRun' \in {"nil", "agent execution failed"}
    /\ UNCHANGED <<parserVars, data, runnerVars, children, ctx, primeDirective, pc, iter, statusData,
                   work, lastStalledStory, stallCount, epicPlanningCount, result>>

\* cmd.Wait returns: the child has run, has written what it writes to
\* sprint-status.yaml, and has exited with status 0 or not
AgentExit ==
    /\ agentRun = "started"
    /\ statusFile' \in Writes(statusFile)
    /\ agentRun' \in {"nil", "agent execution failed"}
    /\ children' = children - 1
    /\ UNCHANGED <<parserVars, data, runnerVars, ctx, primeDirective, pc, iter, statusData, work,
                   lastStalledStory, stallCount, epicPlanningCount, result>>

\* Runner.Run has returned to runAuto
RunReturned == agentRun \notin {"none", "started"}

\* RunPlanEpic with the snapshot taken anew between the two stages
RunPlanEpicSnapshots ==
    /\ pc = "plan-epic"
    /\ RunReturned
    /\ agentRun' = "none"
    /\ statusData' = statusFile
    /\ IF agentRun = "nil" THEN pc' = "sprint-planning" /\ UNCHANGED result
       ELSE Return(agentRun, "epic planning failed")
    /\ UNCHANGED <<parserVars, data, runnerVars, children, ctx, statusFile, primeDirective, iter,
                   work, lastStalledStory, stallCount, epicPlanningCount>>

\* r.RunWithPrompt(epicPrompt, "plan-epic", epicModel) has returned
RunPlanEpic ==
    /\ pc = "plan-epic"
    /\ RunReturned
    /\ agentRun' = "none"
    /\ IF agentRun = "nil" THEN pc' = "sprint-planning" /\ UNCHANGED result
       ELSE Return(agentRun, "epic planning failed")
    /\ UNCHANGED <<parserVars, data, runnerVars, children, ctx, statusFile, primeDirective, iter, statusData,
                   work, lastStalledStory, stallCount, epicPlanningCount>>

\* the summary after a cycle that added nothing, whatever was planned before
NoNewWorkMessageAllDone(planned) == "All work complete!"

\* what runAuto prints on errEpicPlanningNoNewWork
NoNewWorkMessage(planned) ==
    IF planned > 0 THEN "PrintEpicPlanningSessionComplete" ELSE "All work complete!"

\* a planning cycle counted twice
CountPlannedTwice(planned) == planned + 2

\* epicPlanningCount++
CountPlanned(planned) == planned + 1

\* !c.Bool("no-pause-after-retro") && term.IsTerminal(os.Stdin.Fd()), as the
\* command line and the standard input of the command make it
PauseForReview == BOOLEAN

\* runOneEpicPlanning returns nil: case nil of the switch on planErr
PlanningStaged ==
    /\ epicPlanningCount' = CountPlanned(epicPlanningCount)
    /\ lastStalledStory' = <<>>
    /\ stallCount' = 0
    /\ NextIteration

\* r.Run("sprint-planning", sprintModel) has returned: the comparison of the
\* file with statusBefore, the pause when stdin is a terminal and pauses are
\* not turned off, and the switch on planErr in runAuto
RunSprintPlanning ==
    /\ pc = "sprint-planning"
    /\ RunReturned
    /\ agentRun' = "none"
    /\ IF agentRun # "nil" THEN
           /\ Return(agentRun, "sprint-planning failed")
           /\ UNCHANGED <<iter, statusData, work, lastStalledStory, stallCount,
                          epicPlanningCount>>
       ELSE IF ~statusFile.exists THEN
           /\ Return("re-reading status file after sprint-planning", "")
           /\ UNCHANGED <<iter, statusData, work, lastStalledStory, stallCount,
                          epicPlanningCount>>
       ELSE IF statusFile = statusData THEN
           /\ Return("", NoNewWorkMessage(epicPlanningCount))
           /\ UNCHANGED <<iter, statusData, work, lastStalledStory, stallCount,
                          epicPlanningCount>>
       ELSE
           \E pause \in PauseForReview :
              IF pause THEN
                  /\ pc' = "pause"
                  /\ UNCHANGED <<iter, statusData, work, lastStalledStory, stallCount,
                                 epicPlanningCount, result>>
              ELSE PlanningStaged /\ UNCHANGED result
    /\ UNCHANGED <<parserVars, data, runnerVars, children, ctx, statusFile, primeDirective>>

\* NextWork returns a retrospective
StartRetrospective ==
    /\ StatusParsed
    /\ NextWork(statusFile.entries).found
    /\ NextWork(statusFile.entries).action = "retrospective"
    /\ BeginWork("retrospective")
    /\ UNCHANGED <<parserVars, data, runnerVars, children, agentRun, ctx, statusFile, primeDirective, iter,
                   lastStalledStory, stallCount, epicPlanningCount, result>>

\* r.Run("retrospective", phaseModel) has returned; then the pause when
\* stdin is a terminal and pauses are not turned off, or `continue`
RunRetrospective ==
    /\ pc = "retrospective"
    /\ RunReturned
    /\ agentRun' = "none"
    /\ IF agentRun = "nil" THEN
           \E pause \in PauseForReview :
              IF pause THEN pc' = "pause" /\ UNCHANGED <<iter, statusData, work, result>>
              ELSE NextIteration /\ UNCHANGED result
       ELSE Return(agentRun, "Retrospective failed") /\ UNCHANGED <<iter, statusData, work>>
    /\ UNCHANGED <<parserVars, data, runnerVars, children, ctx, statusFile, primeDirective, lastStalledStory,
                   stallCount, epicPlanningCount>>

\* bufio.NewReader(os.Stdin).ReadBytes('\n') returns: Enter was pressed, or
\* stdin was closed
EnterPressed ==
    /\ pc = "pause"
    /\ IF work.found
       THEN NextIteration /\ UNCHANGED <<lastStalledStory, stallCount, epicPlanningCount>>
       ELSE PlanningStaged
    /\ UNCHANGED <<parserVars, data, runnerVars, children, agentRun, ctx, statusFile, primeDirective,
                   result>>

\* StartStory with the file rewritten by the command
StartStoryWritesStatus ==
    /\ StatusParsed
    /\ NextWork(statusFile.entries).found
    /\ NextWork(statusFile.entries).action # "retrospective"
    /\ pc' = "create-story"
    /\ statusData' = statusFile
    /\ work' = NextWork(statusFile.entries)
    /\ statusFile' = StatusBytes(statusFile.entries \o statusFile.entries)
    /\ UNCHANGED <<parserVars, data, runnerVars, children, agentRun, ctx, primeDirective, iter,
                   lastStalledStory, stallCount, epicPlanningCount, result>>

\* NextWork returns a story: the pipeline starts with phases[0]
StartStory ==
    /\ StatusParsed
    /\ NextWork(statusFile.entries).found
    /\ NextWork(statusFile.entries).action # "retrospective"
    /\ BeginWork("create-story")
    /\ UNCHANGED <<parserVars, data, runnerVars, children, agentRun, ctx, statusFile, primeDirective, iter,
                   lastStalledStory, stallCount, epicPlanningCount, result>>

\* RunPhase with the next phase started whatever the phase returned
RunPhaseGoesOn ==
    /\ pc \in {"create-story", "dev-story"}
    /\ RunReturned
    /\ agentRun' = "none"
    /\ pc' = (IF pc = "create-story" THEN "dev-story" ELSE "code-review")
    /\ UNCHANGED <<parserVars, data, runnerVars, children, ctx, statusFile, primeDirective, iter, statusData,
                   work, lastStalledStory, stallCount, epicPlanningCount, result>>

\* RunPhase with a failed phase run again
RunPhaseRetried ==
    /\ pc \in {"create-story", "dev-story"}
    /\ RunReturned
    /\ agentRun' = "none"
    /\ pc' = (IF agentRun # "nil" THEN pc
              ELSE IF pc = "create-story" THEN "dev-story" ELSE "code-review")
    /\ UNCHANGED <<parserVars, data, runnerVars, children, ctx, statusFile, primeDirective, iter, statusData,
                   work, lastStalledStory, stallCount, epicPlanningCount, result>>

\* r.Run(phase, phaseModel) has returned, for create-story and dev-story
RunPhase ==
    /\ pc \in {"create-story", "dev-story"}
    /\ RunReturned
    /\ agentRun' = "none"
    /\ IF agentRun = "nil" THEN
           /\ pc' = (IF pc = "create-story" THEN "dev-story" ELSE "code-review")
           /\ UNCHANGED result
       ELSE Return(agentRun, "Phase " \o pc \o " failed")
    /\ UNCHANGED <<parserVars, data, runnerVars, children, ctx, statusFile, primeDirective, iter, statusData,
                   work, lastStalledStory, stallCount, epicPlanningCount>>

\* stallCount after a stall that starts the count over whatever the story
StallCountedAnew(storyKey) == 1

\* stallCount after a stall that counts on whatever the story
StallCountedOn(storyKey) == stallCount + 1

\* stallCount after a stall of storyKey
StallCounted(storyKey) ==
    IF storyKey = lastStalledStory THEN stallCount + 1 ELSE 1

\* a stall is fatal whatever --ignore-stall says
StallFatalAlways(n) == n >= 2

\* the stall that has brought the counter to n ends the loop
StallFatal(n) == ~ctx.ignoreStall /\ n >= 2

\* the counter is kept when the file has changed
CountAfterChangeKept == stallCount

\* stallCount after a run that changed the file
CountAfterChange == 0

\* the stall detection of runAuto, newData being the bytes read after the run
StallDetection(storyKey, newData) ==
    IF newData = statusData THEN
        /\ stallCount' = StallCounted(storyKey)
        /\ lastStalledStory' = storyKey
        /\ IF StallFatal(StallCounted(storyKey))
           THEN Return("stall detected", "") /\ UNCHANGED <<iter, statusData, work>>
           ELSE NextIteration /\ UNCHANGED result
    ELSE
        /\ lastStalledStory' = <<>>
        /\ stallCount' = CountAfterChange
        /\ NextIteration
        /\ UNCHANGED result

\* r.Run("code-review", phaseModel), the last phase, has returned, and what
\* follows it in the body of the loop
RunCodeReview ==
    /\ pc = "code-review"
    /\ RunReturned
    /\ agentRun' = "none"
    /\ IF agentRun # "nil" THEN
           /\ Return(agentRun, "Phase code-review failed")
           /\ UNCHANGED <<iter, statusData, work, lastStalledStory, stallCount>>
       ELSE IF ~statusFile.exists THEN
           /\ Return("re-reading status file", "")
           /\ UNCHANGED <<iter, statusData, work, lastStalledStory, stallCount>>
       ELSE StallDetection(work.storyKey, statusFile)
    /\ UNCHANGED <<parserVars, data, runnerVars, children, ctx, statusFile, primeDirective, epicPlanningCount>>

NextAuto ==
    \/ StatusFileEdited
    \/ MaxIterationsReached
    \/ ReadStatusFails
    \/ ParseStatusFails
    \/ AllWorkComplete
    \/ PlanningSessionComplete
    \/ PrimeDirectiveCreated
    \/ ReadPrimeDirectiveFails
    \/ StartEpicPlanning
    \/ AgentStart
    \/ AgentExit
    \/ RunPlanEpic
    \/ RunSprintPlanning
    \/ StartRetrospective
    \/ RunRetrospective
    \/ EnterPressed
    \/ StartStory
    \/ RunPhase
    \/ RunCodeReview

SpecAuto == InitAuto /\ [][NextAuto]_vars

(* The bare `run` command: the Action of the run command in main *)

\* what the bare command does not use of the state of runAuto
loopVars ==
    <<ctx, primeDirective, iter, statusData, work, lastStalledStory, stallCount,
      epicPlanningCount>>

\* the files made by the writes of writers to the files of S
WritesOf(S) == UNION {Writes(f) : f \in S}

\* sprint-status.yaml as the bare command may find it
BareStatusFiles ==
    WritesOf(WritesOf({StatusBytes(<<[Key |-> Epic1, Value |-> "backlog"]>>)}))

\* the bare command is invoked
InitBare ==
    /\ OrderedEntries = <<>>
    /\ ret = NoRet
    /\ lastGroups = NoGroups
    /\ data = NoDocument
    /\ ctx = NoFlags
    /\ statusFile \in BareStatusFiles
    /\ primeDirective = FALSE
    /\ pc = "run"
    /\ iter = 0
    /\ statusData = NoBytes
    /\ work = NoWorkYet
    /\ lastStalledStory = <<>>
    /\ stallCount = 0
    /\ epicPlanningCount = 0
    /\ agentRun = "none"
    /\ children = 0
    /\ result = NoResult
    /\ RunnerNotCalled

\* status.Parse succeeds
BareParsed == pc = "run" /\ statusFile.exists /\ statusFile.parses

\* status.Parse fails: a warning, and runFullPipeline
BareParseFails ==
    /\ pc = "run"
    /\ ~(statusFile.exists /\ statusFile.parses)
    /\ pc' = "create-story"
    /\ result' = [returned |-> FALSE, err |-> "",
                  printed |-> "Could not parse sprint-status, running full pipeline"]
    /\ UNCHANGED <<parserVars, data, runnerVars, loopVars, statusFile, agentRun, children>>

\* NextWork finds nothing
BareNothingToRun ==
    /\ BareParsed
    /\ ~NextWork(statusFile.entries).found
    /\ Return("", "All work complete, nothing to run.")
    /\ UNCHANGED <<parserVars, data, runnerVars, loopVars, statusFile, agentRun, children>>

\* NextWork returns a retrospective: runPhase(c, "retrospective")
BareRetrospective ==
    /\ BareParsed
    /\ NextWork(statusFile.entries).found
    /\ NextWork(statusFile.entries).action = "retrospective"
    /\ pc' = "retrospective"
    /\ UNCHANGED <<parserVars, data, runnerVars, loopVars, statusFile, agentRun, children, result>>

\* NextWork returns a story: runFullPipeline
BareFullPipeline ==
    /\ BareParsed
    /\ NextWork(statusFile.entries).found
    /\ NextWork(statusFile.entries).action # "retrospective"
    /\ pc' = "create-story"
    /\ UNCHANGED <<parserVars, data, runnerVars, loopVars, statusFile, agentRun, children, result>>

\* r.Run has returned to runPhase: the retrospective ends the command, a
\* phase of runFullPipeline ends it with its error or goes to the next phase
BarePhaseReturned ==
    /\ pc \in {"retrospective", "create-story", "dev-story", "code-review"}
    /\ RunReturned
    /\ agentRun' = "none"
    /\ IF pc = "retrospective" THEN Return(IF agentRun = "nil" THEN "" ELSE agentRun, "")
       ELSE IF agentRun # "nil" THEN Return(agentRun, "Phase " \o pc \o " failed")
       ELSE IF pc = "code-review" THEN Return("", "Full BMAD pipeline completed!")
       ELSE /\ pc' = (IF pc = "create-story" THEN "dev-story" ELSE "code-review")
            /\ UNCHANGED result
    /\ UNCHANGED <<parserVars, data, runnerVars, loopVars, statusFile, children>>

NextBare ==
    \/ BareParseFails
    \/ BareNothingToRun
    \/ BareRetrospective
    \/ BareFullPipeline
    \/ AgentStart
    \/ AgentExit
    \/ BarePhaseReturned

SpecBare == InitBare /\ [][NextBare]_vars

\* a step of the command or of the agent process it waits for: every step
\* of run auto but the writes of others to the file and the answer to a pause
RunAutoStep ==
    \/ MaxIterationsReached
    \/ ReadStatusFails
    \/ ParseStatusFails
    \/ AllWorkComplete
    \/ PlanningSessionComplete
    \/ PrimeDirectiveCreated
    \/ ReadPrimeDirectiveFails
    \/ StartEpicPlanning
    \/ AgentStart
    \/ AgentExit
    \/ RunPlanEpic
    \/ RunSprintPlanning
    \/ StartRetrospective
    \/ RunRetrospective
    \/ StartStory
    \/ RunPhase
    \/ RunCodeReview

\* run auto with the agent processes the only writers of the file
NextAutoFair == RunAutoStep \/ EnterPressed

\* run auto with a command that keeps running and agent processes that
\* terminate
SpecAutoFair == InitAuto /\ [][NextAutoFair]_vars /\ WF_vars(RunAutoStep)

----------------------------------------------------------------------------
(* lastLinesBuffer: the rolling buffer of the last lines of agent output *)

\* lines given to push in a row
MaxPushes == 5

\* const lastLinesMax
lastLinesMax == 3

\* the white space of strings.TrimSpace that is explored
WhiteSpace == {" ", "\t", "\r", "\n"}

\* strings.TrimLeft of the white space
RECURSIVE TrimLeft(_)
TrimLeft(s) ==
    IF s # <<>> /\ Head(s) \in WhiteSpace THEN TrimLeft(Tail(s)) ELSE s

\* strings.TrimRight of the white space
RECURSIVE TrimRight(_)
TrimRight(s) ==
    IF s # <<>> /\ s[Len(s)] \in WhiteSpace THEN TrimRight(SubSeq(s, 1, Len(s) - 1))
    ELSE s

\* strings.TrimSpace
TrimSpace(s) == TrimRight(TrimLeft(s))

\* b.lines = b.lines[len(b.lines)-b.max:] when len(b.lines) > b.max
Truncated(b) ==
    IF Len(b) > lastLinesMax THEN SubSeq(b, Len(b) - lastLinesMax + 1, Len(b)) ELSE b

\* push that keeps the line as it is given
pushUntrimmed(b, line) ==
    IF TrimSpace(line) = <<>> THEN b ELSE Truncated(Append(b, line))

\* (b *lastLinesBuffer) push(line), b being b.lines
push(b, line) ==
    IF TrimSpace(line) = <<>> THEN b ELSE Truncated(Append(b, TrimSpace(line)))

\* (b *lastLinesBuffer) get(): a copy of b.lines
get(b) == [i \in 1..Len(b) |-> b[i]]

\* the lines push is called with
PushedLines ==
    {<<>>, <<" ">>, <<"a">>, <<" ", "b", "\t">>, <<"c", " ", "d">>, <<"\t", " ">>}

\* a buffer is made: &lastLinesBuffer{max: lastLinesMax}
InitBuffer ==
    /\ OrderedEntries = <<>>
    /\ ret = NoRet
    /\ lastGroups = NoGroups
    /\ data = NoDocument
    /\ AutoNotInvoked
    /\ RunnerNotCalled

\* buf.push(line)
BufferPush ==
    /\ Len(pushed) < MaxPushes
    /\ \E line \in PushedLines :
          /\ lines' = push(lines, line)
          /\ pushed' = Append(pushed, [by |-> "caller", line |-> line])
    /\ UNCHANGED <<parserVars, data, autoVars, mode, runPc, cmd, written, pipe, reader,
                   mu, ticker, cancelled, display, forwarded, runResult>>

\* buf.get()
BufferGet ==
    /\ ticker' = [ticker EXCEPT !.out = get(lines)]
    /\ UNCHANGED <<parserVars, data, autoVars, mode, runPc, cmd, written, pipe, reader,
                   lines, mu, pushed, cancelled, display, forwarded, runResult>>

NextBuffer == BufferPush \/ BufferGet

SpecBuffer == InitBuffer /\ [][NextBuffer]_vars

----------------------------------------------------------------------------
(* Runner.Run: one run of the agent process *)

\* lines or records the child writes to one stream
MaxLines == 2

Streams == {"stdout", "stderr"}

\* a record of the stream-json output as json.Unmarshal leaves it in a
\* claudeEvent; ok is whether the text was JSON
Event(ok, type, hasMessage, content) ==
    [ok |-> ok, Type |-> type, hasMessage |-> hasMessage, Content |-> content]

\* a content block of a message; Path and Command are the file_path and the
\* command of its Input
Block(type, text, name, path, command) ==
    [Type |-> type, Text |-> text, Name |-> name, Path |-> path, Command |-> command]

\* the place of the first sep in s, Len(s) + 1 when there is none
RECURSIVE IndexOf(_, _)
IndexOf(s, sep) ==
    IF s = <<>> \/ Head(s) = sep THEN 1 ELSE 1 + IndexOf(Tail(s), sep)

\* strings.Split(s, sep)
RECURSIVE Split(_, _)
Split(s, sep) ==
    IF IndexOf(s, sep) > Len(s) THEN <<s>>
    ELSE <<SubSeq(s, 1, IndexOf(s, sep) - 1)>>
         \o Split(SubSeq(s, IndexOf(s, sep) + 1, Len(s)), sep)

\* the text of one content block as a claudeBlock: the block's type, then a
\* text, or the name of a tool and its input
UnmarshalBlock(b) ==
    LET type == IF b = <<>> THEN "" ELSE b[1]
        key == IF Len(b) >= 3 THEN b[3] ELSE ""
    IN  Block(type,
              IF type = "text" THEN Tail(b) ELSE <<>>,
              IF type = "tool_use" /\ Len(b) >= 2 THEN b[2] ELSE "",
              IF type = "tool_use" /\ key = "file_path" THEN SubSeq(b, 4, Len(b)) ELSE <<>>,
              IF type = "tool_use" /\ key = "command" THEN SubSeq(b, 4, Len(b)) ELSE <<>>)

\* the content blocks of a message, each ended by ";"
RECURSIVE UnmarshalContent(_)
UnmarshalContent(t) ==
    IF t = <<>> THEN <<>>
    ELSE <<UnmarshalBlock(SubSeq(t, 1, IndexOf(t, ";") - 1))>>
         \o UnmarshalContent(SubSeq(t, IndexOf(t, ";") + 1, Len(t)))

\* json.Unmarshal(raw, &ev): a record is "{", its type, "message" and the
\* content blocks if it has a message, and "}"; any other text is not JSON
Unmarshal(raw) ==
    IF Len(raw) < 3 \/ raw[1] # "{" \/ raw[Len(raw)] # "}" THEN Event(FALSE, "", FALSE, <<>>)
    ELSE IF Len(raw) >= 4 /\ raw[3] = "message"
         THEN Event(TRUE, raw[2], TRUE, UnmarshalContent(SubSeq(raw, 4, Len(raw) - 1)))
    ELSE Event(TRUE, raw[2], FALSE, <<>>)

\* the loop of lastNonEmptyLine over the lines
RECURSIVE LastNonEmpty(_)
LastNonEmpty(ls) ==
    IF ls = <<>> THEN <<>>
    ELSE IF TrimSpace(ls[Len(ls)]) # <<>> THEN TrimSpace(ls[Len(ls)])
    ELSE LastNonEmpty(SubSeq(ls, 1, Len(ls) - 1))

\* lastNonEmptyLine(s)
lastNonEmptyLine(s) == LastNonEmpty(Split(TrimSpace(s), "\n"))

\* the longest command shown whole, and what is kept of a longer one
CommandMax == 50
CommandCut == 47

\* formatToolUse(block)
formatToolUse(block) ==
    CASE block.Name \in {"Read", "read_file"} /\ block.Path # <<>> ->
             <<"Reading ">> \o block.Path
      [] block.Name \in {"Edit", "edit_file"} /\ block.Path # <<>> ->
             <<"Editing ">> \o block.Path
      [] block.Name \in {"Write", "write_file"} /\ block.Path # <<>> ->
             <<"Writing ">> \o block.Path
      [] block.Name \in {"Bash", "execute_command"} /\ block.Command # <<>> ->
             <<"Running: ">> \o (IF Len(block.Command) > CommandMax
                                 THEN SubSeq(block.Command, 1, CommandCut) \o <<"...">>
                                 ELSE block.Command)
      [] block.Name \in {"Glob", "glob"} -> <<"Tool: Glob">>
      [] block.Name \in {"Grep", "grep"} -> <<"Tool: Grep">>
      [] OTHER -> <<"Tool: ", block.Name>>

\* the loop over ev.Message.Content of extractClaudeStatus
RECURSIVE StatusOfBlocks(_)
StatusOfBlocks(content) ==
    IF content = <<>> THEN <<>>
    ELSE LET block == Head(content)
             more == StatusOfBlocks(Tail(content))
         IN  IF block.Type = "tool_use" THEN <<formatToolUse(block)>> \o more
             ELSE IF block.Type = "text" /\ lastNonEmptyLine(block.Text) # <<>>
                  THEN <<lastNonEmptyLine(block.Text)>> \o more
             ELSE more

\* extractClaudeStatus(ev)
extractClaudeStatus(ev) ==
    IF ev.Type # "assistant" \/ ~ev.hasMessage THEN <<>>
    ELSE StatusOfBlocks(ev.Content)

\* an assistant turn with a text and a tool use
TextAndToolUse ==
    <<"{", "assistant", "message", "text", "o", "k", "\n", " ", ";",
      "tool_use", "Read", "file_path", "f", ";", "}">>

\* a line that is not JSON
Malformed == <<"n", "o">>

\* what the child writes to a stream, line by line
Output(m, s) ==
    IF s = "stderr" THEN {<<"e">>, <<" ", "f", " ">>}
    ELSE IF m = "live" THEN {TextAndToolUse, Malformed}
    ELSE {<<"o">>, <<" ">>}

\* Run is called: r.NoLiveStatus and r.AgentType are those of the Runner
InitRunner ==
    /\ OrderedEntries = <<>>
    /\ ret = NoRet
    /\ lastGroups = NoGroups
    /\ data = NoDocument
    /\ AutoNotInvoked
    /\ mode \in {"headless", "live", "pty"}
    /\ runPc = "called"
    /\ cmd = NoCmd
    /\ written = NoOutput
    /\ pipe = NoPipes
    /\ reader = [stdout |-> NoReader, stderr |-> NoReader]
    /\ lines = <<>>
    /\ mu = ""
    /\ pushed = <<>>
    /\ ticker = NoTicker
    /\ cancelled = FALSE
    /\ display = NoDisplay
    /\ forwarded = NoOutput
    /\ runResult = NoRunResult

\* return from Run
RunReturns(err) ==
    /\ runPc' = "returned"
    /\ runResult' = [returned |-> TRUE, err |-> err]

\* spinner.Fail, spinner.Success, display.Fail, display.Success
Final(d, indicator) ==
    [d EXCEPT !.active = FALSE, !.final = indicator, !.shown = @ + 1]

\* os.ReadFile(commandFile) fails
ReadCommandFails ==
    /\ runPc = "called"
    /\ RunReturns("reading command file")
    /\ UNCHANGED <<parserVars, data, autoVars, mode, cmd, written, pipe, reader, lines,
                   mu, pushed, ticker, cancelled, display, forwarded>>

\* cmd.StdoutPipe or cmd.StderrPipe fails
PipeFails ==
    /\ runPc = "called"
    /\ mode \in {"headless", "live"}
    /\ display' = IF mode = "live"
                  THEN [kind |-> "PhaseDisplay", active |-> FALSE, final |-> "Fail",
                        shown |-> 1, frame |-> <<>>]
                  ELSE display
    /\ RunReturns("pipe")
    /\ UNCHANGED <<parserVars, data, autoVars, mode, cmd, written, pipe, reader, lines,
                   mu, pushed, ticker, cancelled, forwarded>>

\* Run up to the start of the child: the pipes are made; without live status
\* the two readPipe goroutines and the spinner are started, with it the
\* PhaseDisplay is made
RunSetup ==
    /\ runPc = "called"
    /\ runPc' = "start"
    /\ reader' = IF mode = "headless"
                 THEN [s \in Streams |-> [pc |-> "scan", rest |-> <<>>]]
                 ELSE reader
    /\ display' = [kind |-> IF mode = "headless" THEN "spinner" ELSE "PhaseDisplay",
                   active |-> TRUE, final |-> "", shown |-> 0, frame |-> <<>>]
    /\ UNCHANGED <<parserVars, data, autoVars, mode, cmd, written, pipe, lines, mu,
                   pushed, ticker, cancelled, forwarded, runResult>>

\* StartFails without the indicator of failure
StartFailsSilently ==
    /\ runPc = "start"
    /\ pipe' = [pipe EXCEPT !.closed = TRUE]
    /\ RunReturns("agent start failed")
    /\ UNCHANGED <<parserVars, data, autoVars, mode, cmd, written, reader, lines, mu,
                   pushed, ticker, cancelled, display, forwarded>>

\* cmd.Start (pty.Start for gemini-cli) fails: the indicator of failure, and
\* the error is returned; the pipes are closed by the failed start
StartFails ==
    /\ runPc = "start"
    /\ display' = Final(display, "Fail")
    /\ pipe' = [pipe EXCEPT !.closed = TRUE]
    /\ RunReturns("agent start failed")
    /\ UNCHANGED <<parserVars, data, autoVars, mode, cmd, written, reader, lines, mu,
                   pushed, ticker, cancelled, forwarded>>

\* cmd.Start (pty.Start) succeeds; with live status the readers and the
\* ticker goroutine are started; Run goes on to cmd.Wait
StartChild ==
    /\ runPc = "start"
    /\ runPc' = "wait"
    /\ cmd' = [state |-> "running", exit |-> 0]
    /\ reader' = CASE mode = "live" -> [s \in Streams |-> [pc |-> "scan", rest |-> <<>>]]
                   [] mode = "pty" -> [reader EXCEPT !.stdout = [pc |-> "scan", rest |-> <<>>]]
                   [] OTHER -> reader
    /\ ticker' = IF mode = "headless" THEN ticker ELSE [ticker EXCEPT !.pc = "select"]
    /\ UNCHANGED <<parserVars, data, autoVars, mode, written, pipe, lines, mu, pushed,
                   cancelled, display, forwarded, runResult>>

\* the child writes a line to its stdout or stderr (to the pty, which is
\* read as stdout here)
ChildWrites ==
    /\ cmd.state = "running"
    /\ \E s \in Streams :
          /\ mode = "pty" => s = "stdout"
          /\ Len(written[s]) < MaxLines
          /\ \E item \in Output(mode, s) :
                /\ written' = [written EXCEPT ![s] = Append(@, item)]
                /\ pipe' = [pipe EXCEPT ![s] = Append(@, item)]
    /\ UNCHANGED <<parserVars, data, autoVars, mode, runPc, cmd, reader, lines, mu,
                   pushed, ticker, cancelled, display, forwarded, runResult>>

\* the child exits
ChildExits ==
    /\ cmd.state = "running"
    /\ \E code \in {0, 1} : cmd' = [state |-> "exited", exit |-> code]
    /\ UNCHANGED <<parserVars, data, autoVars, mode, runPc, written, pipe, reader, lines,
                   mu, pushed, ticker, cancelled, display, forwarded, runResult>>

\* what Run returns for the exit status of the child
ExecutionError == IF cmd.exit = 0 THEN "" ELSE "agent execution failed"

\* the indicator for the exit status of the child
FinalIndicator == IF cmd.exit = 0 THEN "Success" ELSE "Fail"

\* WaitReturns with a wait for the readers to return first
WaitReturnsAfterReaders ==
    /\ runPc = "wait"
    /\ cmd.state = "exited"
    /\ \A s \in Streams : reader[s].pc \in {"off", "done"}
    /\ pipe' = [pipe EXCEPT !.closed = (mode # "pty")]
    /\ IF mode = "headless" THEN
           /\ display' = Final(display, FinalIndicator)
           /\ RunReturns(ExecutionError)
           /\ UNCHANGED cancelled
       ELSE
           /\ cancelled' = TRUE
           /\ runPc' = "cancelled"
           /\ UNCHANGED <<display, runResult>>
    /\ UNCHANGED <<parserVars, data, autoVars, mode, cmd, written, reader, lines, mu,
                   pushed, ticker, forwarded>>

\* cmd.Wait returns, which closes the pipes; without live status the spinner
\* shows the outcome and Run returns, with it cancel() is called
WaitReturns ==
    /\ runPc = "wait"
    /\ cmd.state = "exited"
    /\ pipe' = [pipe EXCEPT !.closed = (mode # "pty")]
    /\ IF mode = "headless" THEN
           /\ display' = Final(display, FinalIndicator)
           /\ RunReturns(ExecutionError)
           /\ UNCHANGED cancelled
       ELSE
           /\ cancelled' = TRUE
           /\ runPc' = "cancelled"
           /\ UNCHANGED <<display, runResult>>
    /\ UNCHANGED <<parserVars, data, autoVars, mode, cmd, written, reader, lines, mu,
                   pushed, ticker, forwarded>>

\* display.Fail or display.Success, and Run returns (the deferred
\* ptmx.Close of gemini-cli included)
ShowFinal ==
    /\ runPc = "cancelled"
    /\ display' = Final(display, FinalIndicator)
    /\ pipe' = [pipe EXCEPT !.closed = TRUE]
    /\ RunReturns(ExecutionError)
    /\ UNCHANGED <<parserVars, data, autoVars, mode, cmd, written, reader, lines, mu,
                   pushed, ticker, cancelled, forwarded>>

\* the record pushed as it was read, as readPipe does
RawLines(raw) == <<raw>>

\* the body of the loop of readStreamJSON: an empty line and a line that
\* is not JSON are passed over
StatusLines(raw) ==
    IF raw = <<>> \/ ~Unmarshal(raw).ok THEN <<>>
    ELSE extractClaudeStatus(Unmarshal(raw))

\* what a reader pushes for what it has read from stream s
Pushes(s, item) ==
    IF mode = "live" /\ s = "stdout" THEN StatusLines(item) ELSE <<item>>

\* where a reader goes when rest is what is left to push
Onward(rest) == IF rest = <<>> THEN "scan" ELSE "push"

\* scanner.Scan() of a reader: a line is there, or the stream has ended or
\* the pipe was closed and the reader returns
ReaderScan ==
    /\ \E s \in Streams :
          /\ reader[s].pc = "scan"
          /\ IF pipe.closed THEN
                 /\ reader' = [reader EXCEPT ![s].pc = "done"]
                 /\ UNCHANGED pipe
             ELSE IF pipe[s] # <<>> THEN
                 /\ pipe' = [pipe EXCEPT ![s] = Tail(@)]
                 /\ reader' =
                       [reader EXCEPT
                          ![s] = IF mode = "headless"
                                 THEN [pc |-> "tee", rest |-> <<Head(pipe[s])>>]
                                 ELSE [pc |-> Onward(Pushes(s, Head(pipe[s]))),
                                       rest |-> Pushes(s, Head(pipe[s]))]]
             ELSE
                 /\ cmd.state = "exited"
                 /\ reader' = [reader EXCEPT ![s].pc = "done"]
                 /\ UNCHANGED pipe
    /\ UNCHANGED <<parserVars, data, autoVars, mode, runPc, cmd, written, lines, mu,
                   pushed, ticker, cancelled, display, forwarded, runResult>>

\* ReaderTee with os.Stdout as the writer of both readers
ReaderTeeToStdout ==
    /\ \E s \in Streams :
          /\ reader[s].pc = "tee"
          /\ forwarded' = [forwarded EXCEPT !.stdout = Append(@, Head(reader[s].rest))]
          /\ reader' = [reader EXCEPT ![s].pc = "push"]
    /\ UNCHANGED <<parserVars, data, autoVars, mode, runPc, cmd, written, pipe, lines, mu,
                   pushed, ticker, cancelled, display, runResult>>

\* fmt.Fprintln(w, line) of readPipe with a writer
ReaderTee ==
    /\ \E s \in Streams :
          /\ reader[s].pc = "tee"
          /\ forwarded' = [forwarded EXCEPT ![s] = Append(@, Head(reader[s].rest))]
          /\ reader' = [reader EXCEPT ![s].pc = "push"]
    /\ UNCHANGED <<parserVars, data, autoVars, mode, runPc, cmd, written, pipe, lines, mu,
                   pushed, ticker, cancelled, display, runResult>>

\* buf.push(line) up to b.mu.Lock(): a line that trims to nothing is dropped
ReaderPush ==
    /\ \E s \in Streams :
          /\ reader[s].pc = "push"
          /\ pushed' = Append(pushed, [by |-> s, line |-> Head(reader[s].rest)])
          /\ IF TrimSpace(Head(reader[s].rest)) = <<>> THEN
                 /\ reader' = [reader EXCEPT ![s] = [pc |-> Onward(Tail(@.rest)),
                                                     rest |-> Tail(@.rest)]]
                 /\ UNCHANGED mu
             ELSE
                 /\ mu = ""
                 /\ mu' = s
                 /\ reader' = [reader EXCEPT ![s].pc = "append"]
    /\ UNCHANGED <<parserVars, data, autoVars, mode, runPc, cmd, written, pipe, lines,
                   ticker, cancelled, display, forwarded, runResult>>

\* ReaderAppend with the lock given up after the append
ReaderAppendUnlocks ==
    /\ \E s \in Streams :
          /\ reader[s].pc = "append"
          /\ lines' = Append(lines, TrimSpace(Head(reader[s].rest)))
          /\ reader' = [reader EXCEPT ![s].pc = "trim"]
          /\ mu' = ""
    /\ UNCHANGED <<parserVars, data, autoVars, mode, runPc, cmd, written, pipe, pushed,
                   ticker, cancelled, display, forwarded, runResult>>

\* b.lines = append(b.lines, line)
ReaderAppend ==
    /\ \E s \in Streams :
          /\ reader[s].pc = "append"
          /\ lines' = Append(lines, TrimSpace(Head(reader[s].rest)))
          /\ reader' = [reader EXCEPT ![s].pc = "trim"]
    /\ UNCHANGED <<parserVars, data, autoVars, mode, runPc, cmd, written, pipe, mu,
                   pushed, ticker, cancelled, display, forwarded, runResult>>

\* the cut to the last max lines, and the deferred b.mu.Unlock()
ReaderTrim ==
    /\ \E s \in Streams :
          /\ reader[s].pc = "trim"
          /\ lines' = Truncated(lines)
          /\ mu' = ""
          /\ reader' = [reader EXCEPT ![s] = [pc |-> Onward(Tail(@.rest)),
                                              rest |-> Tail(@.rest)]]
    /\ UNCHANGED <<parserVars, data, autoVars, mode, runPc, cmd, written, pipe, pushed,
                   ticker, cancelled, display, forwarded, runResult>>

\* case <-ticker.C of the select, and b.mu.Lock() of buf.get()
TickerTick ==
    /\ ticker.pc = "select"
    /\ mu = ""
    /\ mu' = "ticker"
    /\ ticker' = [ticker EXCEPT !.pc = "get"]
    /\ UNCHANGED <<parserVars, data, autoVars, mode, runPc, cmd, written, pipe, reader,
                   lines, pushed, cancelled, display, forwarded, runResult>>

\* the copy of buf.get() and its deferred b.mu.Unlock()
TickerGet ==
    /\ ticker.pc = "get"
    /\ ticker' = [pc |-> "draw", out |-> get(lines)]
    /\ mu' = ""
    /\ UNCHANGED <<parserVars, data, autoVars, mode, runPc, cmd, written, pipe, reader,
                   lines, pushed, cancelled, display, forwarded, runResult>>

\* TickerDraw without the test of d.active
TickerDrawInactive ==
    /\ ticker.pc = "draw"
    /\ ticker' = [ticker EXCEPT !.pc = "select"]
    /\ display' = [display EXCEPT !.frame = ticker.out]
    /\ UNCHANGED <<parserVars, data, autoVars, mode, runPc, cmd, written, pipe, reader,
                   lines, mu, pushed, cancelled, forwarded, runResult>>

\* display.Tick(lines): a redraw while the display is active
TickerDraw ==
    /\ ticker.pc = "draw"
    /\ ticker' = [ticker EXCEPT !.pc = "select"]
    /\ display' = IF display.active THEN [display EXCEPT !.frame = ticker.out]
                  ELSE display
    /\ UNCHANGED <<parserVars, data, autoVars, mode, runPc, cmd, written, pipe, reader,
                   lines, mu, pushed, cancelled, forwarded, runResult>>

\* case <-ctx.Done() of the select
TickerStops ==
    /\ ticker.pc = "select"
    /\ cancelled
    /\ ticker' = [ticker EXCEPT !.pc = "stopped"]
    /\ UNCHANGED <<parserVars, data, autoVars, mode, runPc, cmd, written, pipe, reader,
                   lines, mu, pushed, cancelled, display, forwarded, runResult>>

NextRunner ==
    \/ ReadCommandFails
    \/ PipeFails
    \/ RunSetup
    \/ StartFails
    \/ StartChild
    \/ ChildWrites
    \/ ChildExits
    \/ WaitReturns
    \/ ShowFinal
    \/ ReaderScan
    \/ ReaderTee
    \/ ReaderPush
    \/ ReaderAppend
    \/ ReaderTrim
    \/ TickerTick
    \/ TickerGet
    \/ TickerDraw
    \/ TickerStops

SpecRunner == InitRunner /\ [][NextRunner]_vars

----------------------------------------------------------------------------
(* readStreamJSON alone: the reader of a finished child's stream-json *)

\* records in the output of the child
MaxRecords == 2

\* a command longer than what formatToolUse shows whole
LongCommand == [i \in 1..(CommandMax + 1) |-> "x"]

\* records of the stream-json protocol, and lines that are none
RawRecords ==
    { TextAndToolUse,
      Malformed,
      <<>>,
      <<"{", "user", "message", "text", "h", "i", ";", "}">>,
      <<"{", "assistant", "}">>,
      <<"{", "assistant", "message", "text", " ", "\n", "\t", ";", "}">>,
      <<"{", "assistant", "message", "tool_use", "Bash", "command">> \o LongCommand
          \o <<";", "}">>,
      <<"{", "assistant", "message", "tool_use", "Bash", "command", "l", "s", ";", "}">>,
      <<"{", "assistant", "message", "tool_use", "Grep", ";", "image", ";", "}">>,
      <<"{", "assistant", "message", "tool_use", "Edit", ";", "text", "a", "\n", "b", ";",
        "tool_use", "write_file", "file_path", "g", ";", "}">>,
      <<"{", "system", "}">> }

\* the output of the child, up to MaxRecords lines
Outputs == UNION {[1..n -> RawRecords] : n \in 0..MaxRecords}

\* the child has written its records and exited; Run is in cmd.Wait and the
\* readers are at work
InitStream ==
    /\ OrderedEntries = <<>>
    /\ ret = NoRet
    /\ lastGroups = NoGroups
    /\ data = NoDocument
    /\ AutoNotInvoked
    /\ mode = "live"
    /\ runPc = "wait"
    /\ cmd = [state |-> "exited", exit |-> 0]
    /\ \E out \in Outputs :
          /\ written = [stdout |-> out, stderr |-> <<>>]
          /\ pipe = [stdout |-> out, stderr |-> <<>>, closed |-> FALSE]
    /\ reader = [s \in Streams |-> [pc |-> "scan", rest |-> <<>>]]
    /\ lines = <<>>
    /\ mu = ""
    /\ pushed = <<>>
    /\ ticker = [pc |-> "select", out |-> <<>>]
    /\ cancelled = FALSE
    /\ display = [kind |-> "PhaseDisplay", active |-> TRUE, final |-> "", shown |-> 0,
                  frame |-> <<>>]
    /\ forwarded = NoOutput
    /\ runResult = NoRunResult

NextStream ==
    \/ ReaderScan
    \/ ReaderPush
    \/ ReaderAppend
    \/ ReaderTrim

SpecStream == InitStream /\ [][NextStream]_vars

----------------------------------------------------------------------------
(* runOneEpicPlanning: the completed epics handed to the planning prompt *)

\* longest development_status mapping handed to runOneEpicPlanning
MaxPlanEntries == 3

\* strings.Contains(s, sub)
Contains(s, sub) ==
    \E i \in 1..(Len(s) - Len(sub) + 1) : SubSeq(s, i, i + Len(sub) - 1) = sub

\* the loop over s.DevStatus of runOneEpicPlanning: the keys it collects, a
\* set because the order of a range over a map is not fixed
completedEpics(entries) ==
    {entries[i].Key : i \in {j \in 1..Len(entries) :
        /\ HasPrefix(entries[j].Key, EpicPrefix)
        /\ ~Contains(entries[j].Key, RetroSuffix)
        /\ entries[j].Value = "done"}}

\* the status tokens of an epic entry
EpicStatuses == {"backlog", "in-progress", "done"}

\* the entries of the documents handed to runOneEpicPlanning
PlanEntries ==
    {[Key |-> k, Value |-> v] : k \in {Epic1, Epic2}, v \in EpicStatuses}
        \cup EntryPool({Story11a, Retro1})

\* statusBefore: a document in which NextWork has found no work
PlanDocuments ==
    {d \in UNION {[1..n -> PlanEntries] : n \in 0..MaxPlanEntries} :
        /\ \A i, j \in 1..Len(d) : d[i].Key = d[j].Key => i = j
        /\ ~NextWork(d).found}

\* runOneEpicPlanning is entered with the snapshot of the iteration
InitPlan ==
    /\ OrderedEntries \in PlanDocuments
    /\ ret = NoRet
    /\ lastGroups = NoGroups
    /\ data = NoDocument
    /\ AutoNotInvoked
    /\ RunnerNotCalled

\* completedEpics is collected for the EpicPlanningContext
CollectCompletedEpics ==
    /\ ret = NoRet
    /\ ret' = [op |-> "completedEpics", list |-> completedEpics(OrderedEntries)]
    /\ UNCHANGED <<OrderedEntries, lastGroups, data, autoVars, runnerVars>>

SpecPlan == InitPlan /\ [][CollectCompletedEpics]_vars

(* C12 .. C15: the stall detection after a story pipeline *)

\* this step ends a pipeline: r.Run of code-review has returned no error
PipelineCompletes ==
    /\ pc = "code-review"
    /\ agentRun = "nil"
    /\ agentRun' = "none"

\* this step completes the pipeline and finds the file byte-identical to the
\* snapshot of the iteration
StallObserved == PipelineCompletes /\ statusFile' = statusData

\* this step completes the pipeline and finds the file changed
ChangeObserved ==
    PipelineCompletes /\ statusFile'.exists /\ statusFile' # statusData

StallAbort == pc' = "returned" /\ result'.err = "stall detected"

Continues == pc' = "loop" /\ ~result'.returned /\ iter' = iter + 1

\* C12: with ignore-stall disabled, a stall of story K that does not follow
\* a stall of K only warns and the loop continues with a count of 1 for K; a
\* stall of K that follows a stall of K aborts the loop with the stall error:
\* the count never passes 2.
C12_SecondStallAborts ==
    [][(StallObserved /\ ~ctx.ignoreStall) =>
          /\ stallCount' <= 2
          /\ IF work.storyKey = lastStalledStory
             THEN StallAbort /\ stallCount' = 2
             ELSE /\ Continues
                  /\ stallCount' = 1
                  /\ lastStalledStory' = work.storyKey]_vars

\* the loop was aborted by the second stall of a story
C12_Witness ==
    /\ ~ctx.ignoreStall
    /\ pc = "returned"
    /\ result.err = "stall detected"
    /\ stallCount = 2
    /\ lastStalledStory = work.storyKey
    /\ statusFile = statusData

\* C13: with ignore-stall enabled no stall aborts the loop: after a stall the
\* loop goes on to the next iteration, a stall of the story that stalled
\* before adds 1 to the counter, and the counter goes back to 0 only in an
\* iteration that found the file changed.
C13_IgnoreStallNeverAborts ==
    [][ctx.ignoreStall =>
          /\ ~StallAbort
          /\ StallObserved =>
                /\ Continues
                /\ work.storyKey = lastStalledStory => stallCount' = stallCount + 1
          /\ (stallCount > 0 /\ stallCount' = 0) =>
                /\ pc \in {"code-review", "sprint-planning", "pause"}
                /\ statusFile' # statusData]_vars

\* three stalls of one story in a row, and the loop is still running
C13_Witness ==
    /\ ctx.ignoreStall
    /\ pc = "loop"
    /\ ~result.returned
    /\ stallCount = 3
    /\ lastStalledStory = Story11a

\* C14: a story iteration that finds the bytes of the file different from
\* the snapshot leaves the stall counter 0 and the remembered story empty.
C14_ChangeResetsStall ==
    [][ChangeObserved =>
          /\ stallCount' = 0
          /\ lastStalledStory' = <<>>
          /\ Continues]_vars

\* the last phase of a pipeline is about to end on a file that differs from
\* the snapshot, with a stall of this story counted
C14_Witness ==
    /\ pc = "code-review"
    /\ agentRun = "nil"
    /\ stallCount >= 1
    /\ lastStalledStory = work.storyKey
    /\ statusFile.exists
    /\ statusFile # statusData

\* C15: a stall of a story other than the one that stalled before starts the
\* counter at 1 for the new story and does not abort the loop.
C15_OtherStoryStartsAtOne ==
    [][(StallObserved /\ work.storyKey # lastStalledStory) =>
          /\ stallCount' = 1
          /\ lastStalledStory' = work.storyKey
          /\ Continues]_vars

\* a story has stalled, and the pipeline of another story is about to end on
\* an unchanged file
C15_Witness ==
    /\ pc = "code-review"
    /\ agentRun = "nil"
    /\ stallCount >= 1
    /\ lastStalledStory = Story11a
    /\ work.storyKey = Story12b
    /\ statusFile = statusData

(* C16 *)

\* this step runs the retrospective to its end and finds the file
\* byte-identical to the snapshot of the iteration
RetrospectiveStallObserved ==
    /\ pc = "retrospective"
    /\ agentRun = "nil"
    /\ agentRun' = "none"
    /\ statusFile' = statusData

\* C16: the stall check covers retrospectives: with ignore-stall disabled, a
\* retrospective run that leaves the file byte-identical to the snapshot is
\* counted against its epic, and the second such run in a row for the epic
\* aborts the loop with the stall error.
C16_RetrospectiveStallAborts ==
    [][(RetrospectiveStallObserved /\ ~ctx.ignoreStall) =>
          /\ lastStalledStory' = work.epicKey
          /\ stallCount' >= 1
          /\ lastStalledStory = work.epicKey => StallAbort]_vars

\* what the loop does instead: max-iterations is used up by retrospective
\* runs of one epic that left the file as it was, and no stall was counted
RetrospectiveRunsToMaxIterations ==
    /\ ~ctx.ignoreStall
    /\ pc = "returned"
    /\ result.err = "max iterations reached"
    /\ iter = MaxIter
    /\ stallCount = 0
    /\ statusFile = StatusBytes(<<[Key |-> Epic1, Value |-> "backlog"],
                                 [Key |-> Retro1, Value |-> "optional"]>>)

(* C17 .. C20: no work is found *)

\* the iteration that starts here finds no work
NoWorkFound ==
    /\ pc = "loop"
    /\ iter < ctx.maxIterations
    /\ statusFile.exists
    /\ statusFile.parses
    /\ ~NextWork(statusFile.entries).found

\* the command is in a run of an agent process
AgentRunning ==
    pc \in {"plan-epic", "sprint-planning", "retrospective", "create-story",
            "dev-story", "code-review"}

PlanningRunning == pc \in {"plan-epic", "sprint-planning"}

\* the file is left as it is and the command does a step
Proceeds == statusFile' = statusFile /\ pc' # pc

\* C17: with epic planning disabled, an iteration whose scheduling query
\* finds no work ends the loop with nil, and no agent process is run in it.
C17_NoWorkEndsLoop ==
    [][(NoWorkFound /\ ~ctx.enableEpicPlanning /\ Proceeds) =>
          /\ pc' = "returned"
          /\ result' = [returned |-> TRUE, err |-> "", printed |-> "All work complete!"]
          /\ iter' = iter]_vars

\* the loop has done an iteration and then ended for lack of work
C17_Witness ==
    /\ ~ctx.enableEpicPlanning
    /\ pc = "returned"
    /\ result.err = ""
    /\ result.printed = "All work complete!"
    /\ iter >= 1

\* the cap of the session: --max-new-epics, 5 when that is not positive
SessionCap == IF ctx.maxNewEpics <= 0 THEN 5 ELSE ctx.maxNewEpics

\* runAuto has returned from the check of the planning counter
CapReachedExit ==
    /\ pc = "returned"
    /\ result.printed = "PrintEpicPlanningSessionComplete"
    /\ statusData = NoBytes

\* the counter is within the cap, a cycle runs only below the cap, and the
\* exit at the check of the counter is taken with the counter at the cap
WithinCap ==
    /\ epicPlanningCount <= SessionCap
    /\ PlanningRunning => epicPlanningCount + 1 <= SessionCap
    /\ CapReachedExit => result.err = "" /\ epicPlanningCount = SessionCap

\* C18: the planning counter never exceeds the cap (max-new-epics, 5 when
\* that is not positive); when no work is found, planning is enabled and the
\* counter equals the cap, the loop ends with nil (session complete) and
\* starts no planning cycle; a cycle runs only while the counter is below
\* the cap, so at most cap cycles are started in a session.
C18_PlanningWithinCap ==
    [][/\ WithinCap'
       /\ (NoWorkFound /\ ctx.enableEpicPlanning /\ epicPlanningCount = SessionCap
             /\ Proceeds) =>
             /\ pc' = "returned"
             /\ result'.err = ""
             /\ result'.printed = "PrintEpicPlanningSessionComplete"]_vars

\* two epics were planned under a cap of 2 and the loop ended at the cap
C18_Witness ==
    /\ CapReachedExit
    /\ ctx.maxNewEpics = 2
    /\ epicPlanningCount = 2

\* this step ends a planning cycle: r.Run of sprint-planning has returned
\* no error
PlanningCompletes ==
    /\ pc = "sprint-planning"
    /\ agentRun = "nil"
    /\ agentRun' = "none"

\* C19: when both planning stages succeed and the file is byte-identical to
\* the snapshot taken before stage 1, runAuto returns nil, with the
\* session-complete summary if an earlier cycle of the session was counted and
\* with the all-done message otherwise; the counter is not incremented.
C19_NoNewWorkIsGraceful ==
    [][(PlanningCompletes /\ statusFile' = statusData) =>
          /\ pc' = "returned"
          /\ result'.err = ""
          /\ result'.printed = (IF epicPlanningCount > 0
                                THEN "PrintEpicPlanningSessionComplete"
                                ELSE "All work complete!")
          /\ epicPlanningCount' = epicPlanningCount]_vars

\* a second cycle of the session added nothing: session-complete
C19_Witness ==
    /\ pc = "returned"
    /\ ctx.enableEpicPlanning
    /\ result.err = ""
    /\ result.printed = "PrintEpicPlanningSessionComplete"
    /\ statusData.exists
    /\ statusFile = statusData
    /\ epicPlanningCount = 1
    /\ epicPlanningCount < SessionCap

\* this step ends a planning cycle that changed the file, after the pause
\* for review if there is one: runOneEpicPlanning returns nil
CycleStaged ==
    /\ statusFile'.exists
    /\ statusFile' # statusData
    /\ \/ PlanningCompletes /\ pc' # "pause"
       \/ pc = "pause" /\ ~work.found /\ pc' # pc

\* C20: a planning cycle that leaves the file different from the snapshot
\* adds exactly 1 to the planning counter and the loop goes to its next
\* iteration, which reads the file and queries NextWork anew; no other step
\* changes the counter.
C20_PlannedCycleCounted ==
    [][/\ CycleStaged =>
             /\ epicPlanningCount' = epicPlanningCount + 1
             /\ pc' = "loop"
             /\ iter' = iter + 1
             /\ statusData' = NoBytes
             /\ work' = NoWorkYet
             /\ ~result'.returned
       /\ (PlanningCompletes /\ statusFile'.exists /\ statusFile' # statusData) =>
             CycleStaged \/ (pc' = "pause" /\ epicPlanningCount' = epicPlanningCount)
       /\ epicPlanningCount' # epicPlanningCount => CycleStaged]_vars

\* after a counted cycle the loop has found the story the cycle staged
C20_Witness ==
    /\ epicPlanningCount = 1
    /\ pc = "create-story"
    /\ work.found
    /\ work.action = "story"
    /\ iter = 1

TypeAuto == pc \in {"loop", "plan-epic", "sprint-planning", "retrospective",
                    "create-story", "dev-story", "code-review", "pause", "returned"}
(* C21: the prime directive *)

\* a planning cycle is due and the command does a step
PlanningStep == PlanningDue /\ pc' # pc

\* runAuto returns nil on errEpicPlanningPrimeDirectiveCreated
DirectiveCreatedExit ==
    /\ pc' = "returned"
    /\ result' = [returned |-> TRUE, err |-> "",
                  printed |-> "review the prime directive and re-run"]
    /\ agentRun' = "none"

PlanningWithoutDirective ==
    /\ pc = "plan-epic"
    /\ agentRun = "started"
    /\ ~primeDirective

(* C22: a failed agent invocation *)

\* Runner.Run has returned an error to runAuto
AgentFailed == agentRun \in {"agent start failed", "agent execution failed"}

\* C22: when the run of a phase (create-story, dev-story, code-review,
\* retrospective, plan-epic, sprint-planning) returns an error, the next step
\* of the command returns that error from the loop in the same iteration: the
\* phase is not started again, no other phase is started, and nothing happens
\* after the return.
C22_FailedPhaseEndsLoop ==
    [][/\ AgentFailed =>
             /\ pc' = "returned"
             /\ result'.returned
             /\ result'.err = agentRun
             /\ agentRun' = "none"
             /\ iter' = iter
       /\ agentRun' = "started" => agentRun = "none" /\ ~result.returned
       /\ pc = "returned" => vars' = vars]_vars

\* dev-story has failed after create-story went well, and the loop has
\* returned the error of the run
C22_Witness ==
    /\ pc = "returned"
    /\ result.err = "agent execution failed"
    /\ result.printed = "Phase dev-story failed"
    /\ agentRun = "none"
    /\ work.action = "story"

(* C23: nil and non-nil returns of runAuto *)

\* what runAuto printed last when it returned nil
GracefulMessages ==
    {"All work complete!", "PrintEpicPlanningSessionComplete",
     "review the prime directive and re-run"}

\* the errors runAuto returns
LoopErrors ==
    {"stall detected", "agent start failed", "agent execution failed",
     "reading status file", "parsing status file", "re-reading status file",
     "re-reading status file after sprint-planning", "reading prime directive",
     "max iterations reached"}

\* main: a nil error from app.Run is exit status 0, any other is os.Exit(1)
ExitStatus == IF result.err = "" THEN 0 ELSE 1

\* runAuto returned from the check for work with planning disabled
AllDoneExit ==
    /\ result.printed = "All work complete!"
    /\ statusData = NoBytes
    /\ ~ctx.enableEpicPlanning
    /\ ~NextWork(statusFile.entries).found

\* runAuto returned because the prime directive was created
DirectiveJustCreatedExit ==
    /\ result.printed = "review the prime directive and re-run"
    /\ statusData = NoBytes
    /\ ctx.enableEpicPlanning
    /\ primeDirective
    /\ epicPlanningCount < SessionCap

\* runAuto returned after a planning cycle that left the file as it was
NoNewWorkExit ==
    /\ result.printed = (IF epicPlanningCount > 0
                         THEN "PrintEpicPlanningSessionComplete"
                         ELSE "All work complete!")
    /\ statusData.exists
    /\ statusFile = statusData
    /\ work.action = ""
    /\ ctx.enableEpicPlanning

\* C23: runAuto returns nil (exit status 0) exactly in four outcomes: no
\* work with planning disabled, the planning cap reached, the prime directive
\* just created, a planning cycle that added no work; every other return is
\* an error (exit status 1): a fatal stall, a phase that could not be started
\* or that failed, a status file that cannot be read or parsed, a prime
\* directive that cannot be read, max-iterations used up.
C23_NilExactlyWhenGraceful ==
    pc = "returned" =>
       /\ result.returned
       /\ IF result.err = ""
          THEN /\ ExitStatus = 0
               /\ result.printed \in GracefulMessages
               /\ \/ AllDoneExit
                  \/ CapReachedExit /\ epicPlanningCount = SessionCap
                  \/ DirectiveJustCreatedExit
                  \/ NoNewWorkExit
          ELSE /\ ExitStatus = 1
               /\ result.err \in LoopErrors
               /\ result.printed \notin GracefulMessages
               /\ ~(AllDoneExit \/ DirectiveJustCreatedExit \/ NoNewWorkExit)

\* the loop ran out of iterations: an error
C23_Witness ==
    /\ pc = "returned"
    /\ result.err = "max iterations reached"
    /\ ExitStatus = 1
    /\ iter = ctx.maxIterations
    /\ epicPlanningCount >= 1

(* C24: one agent process at a time *)

\* C24: at most one agent child process is in flight at any time of run
\* auto: a child is started only when none is in flight, that is after the
\* wait for the previous one has returned, and one child at a time.
C24_OneChildInFlight ==
    [][/\ children' \in {0, 1}
       /\ children' > children =>
             /\ children = 0
             /\ agentRun = "none"
             /\ agentRun' = "started"
             /\ pc \in Phases
       /\ children' < children => agentRun = "started" /\ agentRun' # "started"]_vars

\* the second phase of a pipeline is in flight, the first has been waited for
C24_Witness ==
    /\ pc = "dev-story"
    /\ agentRun = "started"
    /\ children = 1
    /\ ~result.returned

(* C25: a status document that cannot be parsed *)

\* status.Parse fails in the step that starts here
ParseFailure ==
    /\ pc \in {"run", "loop"}
    /\ pc = "loop" => iter < ctx.maxIterations
    /\ ~(statusFile.exists /\ statusFile.parses)
    /\ pc' # pc

\* C25: whenever the status document cannot be parsed, the command that
\* schedules from it returns the parse error at once and runs no agent
\* phase.
C25_ParseErrorReturned ==
    [][ParseFailure =>
          /\ pc' = "returned"
          /\ result'.err \in {"parsing status file", "reading status file"}
          /\ children' = 0]_vars

\* the bare command runs an agent on a document it could not parse
PipelineOnUnparsedStatus ==
    /\ pc = "create-story"
    /\ agentRun = "started"
    /\ children = 1
    /\ result.printed = "Could not parse sprint-status, running full pipeline"
    /\ ~statusFile.parses

(* C26: run auto terminates *)

\* the place of a phase among the agent runs of its iteration
PhaseOrdinal(p) ==
    CASE p \in {"create-story", "retrospective", "plan-epic"} -> 1
      [] p \in {"dev-story", "sprint-planning"} -> 2
      [] p = "code-review" -> 3
      [] OTHER -> 0

\* an iteration runs the agent at most 3 times, one run per phase and the
\* phases in order, and the iterations are counted up to max-iterations
BoundedIterations ==
    /\ iter' \in {iter, iter + 1}
    /\ iter' <= (IF ctx.maxIterations > 0 THEN ctx.maxIterations ELSE 0)
    /\ iter' = iter + 1 => pc' = "loop"
    /\ (pc' = "loop" /\ pc # "loop") => iter' = iter + 1
    /\ (pc' \in Phases /\ pc' # pc) =>
          /\ iter' = iter
          /\ agentRun' = "none"
          /\ PhaseOrdinal(pc') = PhaseOrdinal(pc) + 1
          /\ PhaseOrdinal(pc') <= 3
    /\ (pc \in Phases /\ RunReturned) => pc' # pc
    /\ agentRun' = "started" => pc \in Phases /\ agentRun = "none"

\* C26 as the specification states it: if every agent process terminates,
\* run auto returns, after at most max-iterations iterations of at most 3
\* agent runs each.
C26_AlwaysReturns ==
    /\ <>(pc = "returned")
    /\ [][BoundedIterations]_vars

\* C26: if every agent process terminates, run auto does at most
\* max-iterations iterations of at most 3 agent runs each, and then returns,
\* unless it waits for ever at a pause (after a retrospective or a planned
\* epic, with stdin a terminal and pauses not turned off) for an Enter that
\* does not come.
C26_ReturnsUnlessPaused ==
    /\ <>(pc = "returned") \/ <>[](pc = "pause")
    /\ [][BoundedIterations]_vars

\* with ignore-stall set, the agent has not changed the file since the
\* story was planned and the loop has used up max-iterations
C26_Witness ==
    /\ pc = "returned"
    /\ result.err = "max iterations reached"
    /\ ctx.ignoreStall
    /\ iter = ctx.maxIterations
    /\ stallCount = ctx.maxIterations - 1
    /\ lastStalledStory = Story11a

\* the command waits at the pause after a retrospective
PausedAfterRetrospective ==
    /\ pc = "pause"
    /\ work.action = "retrospective"
    /\ agentRun = "none"
    /\ children = 0

(* C27: the command does not write the status document *)

\* this step is the end of a run of the agent process
AgentRunEnds == agentRun = "started" /\ agentRun' \in {"nil", "agent execution failed"}

\* this step is not one of the command: nothing it keeps has changed
NotOfTheCommand ==
    UNCHANGED <<ctx, primeDirective, pc, iter, statusData, work, lastStalledStory,
                stallCount, epicPlanningCount, agentRun, children, result>>

\* no agent process has ended since the snapshot of this iteration was read
FirstRunNotEnded ==
    /\ pc \in {"create-story", "retrospective", "plan-epic"}
    /\ agentRun \in {"none", "started", "agent start failed"}

\* C27: the loop coordinator never writes the status document: the bytes of
\* the file are the same after every step of run auto that is not the run of
\* an agent process, so that the file is the snapshot of the iteration until
\* the first agent run of the iteration has ended.
C27_OnlyAgentWrites ==
    /\ [][statusFile' # statusFile => AgentRunEnds \/ NotOfTheCommand]_vars
    /\ [](FirstRunNotEnded => statusFile = statusData)

\* plan-epic has changed the file, sprint-planning has not started
C27_Witness ==
    /\ pc = "sprint-planning"
    /\ agentRun = "none"
    /\ statusData.exists
    /\ statusFile # statusData
    /\ ~result.returned

(* C29: the content of the rolling buffer *)

\* the line has nothing but white space
Blank(l) == \A i \in 1..Len(l) : l[i] \in WhiteSpace

\* t is l without the white space at its two ends
IsTrimOf(t, l) ==
    /\ t # <<>>
    /\ t[1] \notin WhiteSpace
    /\ t[Len(t)] \notin WhiteSpace
    /\ \E i \in 1..Len(l) :
          /\ i + Len(t) - 1 <= Len(l)
          /\ t = SubSeq(l, i, i + Len(t) - 1)
          /\ Blank(SubSeq(l, 1, i - 1))
          /\ Blank(SubSeq(l, i + Len(t), Len(l)))

\* the lines push was called with that are not blank, in the order of the calls
NonBlankPushed == SelectSeq(pushed, LAMBDA p : ~Blank(p.line))

\* the buffer is the last min(3, n) of the n lines that were not blank, trimmed
LastPushedKept ==
    LET n == Len(NonBlankPushed)
        k == IF n < 3 THEN n ELSE 3
    IN  /\ Len(lines) = k
        /\ \A i \in 1..k : IsTrimOf(lines[i], NonBlankPushed[n - k + i].line)

\* C29: after any sequence of pushes the buffer holds at most 3 lines, the
\* last min(3, n) of the n pushed lines that are not empty after trimming,
\* each trimmed and in the order of the pushes; a push of an empty or
\* white-space line leaves the buffer as it was.
C29_BufferKeepsLastLines ==
    /\ [](Len(lines) <= 3 /\ LastPushedKept)
    /\ [][(pushed' # pushed /\ Blank(pushed'[Len(pushed')].line)) => lines' = lines]_vars

\* the oldest line was evicted, and white-space lines were pushed in between
C29_Witness ==
    /\ Len(pushed) = MaxPushes
    /\ Len(NonBlankPushed) = 4
    /\ Blank(pushed[3].line)
    /\ lines = <<<<"b">>, <<"c", " ", "d">>, <<"a">>>>
    /\ ticker.out = lines

----------------------------------------------------------------------------
(* C28, C30: the outcomes of Run and the snapshots of its ticker *)

\* Run has returned the error err ("" for nil)
RunHasReturned(err) == runResult.returned /\ runResult.err = err

\* the final indicator shown is which, and nothing is drawn after it
IndicatorShown(which) == display.final = which /\ ~display.active

\* a failed start: the failure indicator, no child to wait for, no ticker
StartFailureReported ==
    runResult.err = "agent start failed" =>
        /\ runResult.returned
        /\ IndicatorShown("Fail")
        /\ cmd.state = "none"
        /\ ticker.pc = "off"
        /\ ~cancelled

\* an exit that cmd.Wait reports as an error: the failure indicator, then
\* the error
ExitFailureReported ==
    runResult.err = "agent execution failed" =>
        /\ runResult.returned
        /\ IndicatorShown("Fail")
        /\ cmd.state = "exited"
        /\ cmd.exit # 0

\* nil: the child has exited with status zero, the success indicator is shown
SuccessReported ==
    RunHasReturned("") =>
        /\ IndicatorShown("Success")
        /\ cmd.state = "exited"
        /\ cmd.exit = 0

\* once the child was started, Run returns only after its exit, with the
\* error that the exit status asks for
ExitDecidesResult ==
    (runResult.returned /\ cmd.state # "none") =>
        /\ cmd.state = "exited"
        /\ runResult.err = (IF cmd.exit = 0 THEN "" ELSE "agent execution failed")

\* the failure of the start is returned from the start, not from a wait
StartFailureImmediate ==
    (runResult'.err = "agent start failed" /\ runResult.err # "agent start failed")
        => runPc = "start" /\ runPc' = "returned"

\* C28: Run reports what became of the child as ordinary errors: a start
\* failure is returned at once, with the failure indicator shown, nothing
\* waited for and no ticker started; an exit that the wait reports as an
\* error is returned as "agent execution failed" with the failure indicator
\* shown; an exit with status zero returns nil with the success indicator shown
C28_RunReportsOutcomes ==
    /\ [](StartFailureReported /\ ExitFailureReported /\ SuccessReported
           /\ ExitDecidesResult)
    /\ [][StartFailureImmediate]_vars

\* Run has returned the error of a failed child after frames were drawn
C28_Witness ==
    /\ RunHasReturned("agent execution failed")
    /\ mode = "live"
    /\ display.final = "Fail"
    /\ display.frame # <<>>
    /\ cmd.exit = 1

\* the lines of a log that push keeps, trimmed
RECURSIVE Kept(_)
Kept(log) ==
    IF log = <<>> THEN <<>>
    ELSE IF TrimSpace(Head(log).line) = <<>> THEN Kept(Tail(log))
    ELSE <<TrimSpace(Head(log).line)>> \o Kept(Tail(log))

\* the pushes of one stream, in the order they were made
PushedBy(s) ==
    LET of == SelectSeq(pushed, LAMBDA p : p.by = s)
    IN  [i \in 1..Len(of) |-> of[i].line]

\* what the reader of stream s pushes for all that was written to it
RECURSIVE AllPushes(_, _)
AllPushes(s, items) ==
    IF items = <<>> THEN <<>>
    ELSE Pushes(s, Head(items)) \o AllPushes(s, Tail(items))

IsPrefix(a, b) == Len(a) <= Len(b) /\ a = SubSeq(b, 1, Len(a))

\* the log of pushes is an interleaving that keeps the order of each stream
PushedInOrder ==
    \A s \in Streams : IsPrefix(PushedBy(s), AllPushes(s, written[s]))

\* the last lastLinesMax elements of a sequence
LastLines(q) == SubSeq(q, IF Len(q) > lastLinesMax THEN Len(q) - lastLinesMax + 1 ELSE 1,
                       Len(q))

\* a snapshot never has more lines than the buffer may hold
SnapshotBounded == Len(ticker.out) <= lastLinesMax

\* a step in which buf.get() returns
GetReturns == ticker.pc = "get" /\ ticker'.pc = "draw"

\* what get returns is the end of what has been pushed when it returns
SnapshotIsSuffix == GetReturns => ticker'.out = LastLines(Kept(pushed))

\* a snapshot changes only by the next get
SnapshotKept == ticker'.out # ticker.out => GetReturns

\* C30: however the two readers and the ticker interleave, every snapshot
\* that get returns has at most lastLinesMax lines, is the end of the lines
\* pushed so far in an order that keeps each stream's own order, and is not
\* changed by the pushes that follow it
C30_SnapshotsConsistent ==
    /\ [](SnapshotBounded /\ PushedInOrder)
    /\ [][SnapshotIsSuffix /\ SnapshotKept]_vars

\* a full snapshot with lines of both streams, taken after a line had been
\* dropped from the buffer, and followed by a push
C30_Witness ==
    /\ mode = "live"
    /\ Len(ticker.out) = lastLinesMax
    /\ Len(Kept(pushed)) > lastLinesMax + 1
    /\ ticker.out # LastLines(Kept(pushed))
    /\ ticker.out # lines
    /\ \E i, j \in 1..Len(pushed) :
          /\ pushed[i].by = "stdout"
          /\ pushed[j].by = "stderr"
          /\ \E k, l \in 1..Len(ticker.out) :
                /\ ticker.out[k] = TrimSpace(pushed[i].line)
                /\ ticker.out[l] = TrimSpace(pushed[j].line)

----------------------------------------------------------------------------
(* C31: the end of the live display *)

\* Run shows its progress in a PhaseDisplay
LiveStatus == mode # "headless"

\* cmd.Wait has returned in Run
WaitOver == runPc \in {"cancelled", "returned"} /\ cmd.state = "exited"

\* after the wait the ticker is cancelled
CancelledAfterWait == (LiveStatus /\ WaitOver) => cancelled

\* Run returns with one final indicator shown, that of the exit status
OneFinalIndicator ==
    (LiveStatus /\ runResult.returned /\ cmd.state = "exited") =>
        /\ display.shown = 1
        /\ display.final = (IF cmd.exit = 0 THEN "Success" ELSE "Fail")

\* no indicator is shown before the wait is over
NoIndicatorBeforeExit ==
    (LiveStatus /\ cmd.state = "running") => display.shown = 0

\* nothing is drawn once the final indicator is shown
NoRedrawAfterFinal ==
    (LiveStatus /\ display.shown > 0) => display' = display

\* C31: with live status, once the child has exited Run cancels the ticker
\* and shows one final indicator, success exactly when the wait returned no
\* error, and nothing is redrawn after it, also when a tick fires while the
\* ticker is being cancelled
C31_FinalIndicatorIsLast ==
    /\ [](CancelledAfterWait /\ OneFinalIndicator /\ NoIndicatorBeforeExit)
    /\ [][NoRedrawAfterFinal]_vars

\* a tick that fired while Run was cancelling: its snapshot was taken, the
\* final indicator came first, and the frame was not drawn
C31_Witness ==
    /\ mode = "live"
    /\ runResult.returned
    /\ display.shown = 1
    /\ display.final = "Success"
    /\ ticker.pc = "select"
    /\ ticker.out # <<>>
    /\ ticker.out # display.frame

----------------------------------------------------------------------------
(* C32: what readStreamJSON pushes for a record *)

\* the stdout reader takes a record from the pipe
RecordRead == reader.stdout.pc = "scan" /\ pipe'.stdout # pipe.stdout

\* the record it takes
RecordTaken == Head(pipe.stdout)

\* the text is a record of the protocol
IsRecord(raw) == Len(raw) >= 3 /\ raw[1] = "{" /\ raw[Len(raw)] = "}"

\* a record with nothing to show: not JSON, not an assistant turn, or
\* without a message
Meaningless(raw) ==
    ~IsRecord(raw) \/ raw[2] # "assistant" \/ Len(raw) < 4 \/ raw[3] # "message"

\* the texts of the content blocks of a record with a message
BlockTexts(raw) == Split(SubSeq(raw, 4, Len(raw) - 1), ";")

\* a block that has a status line: a tool use, or a text with something in it
ShowsLine(b) ==
    /\ b # <<>>
    /\ \/ b[1] = "tool_use"
       \/ b[1] = "text" /\ \E k \in 2..Len(b) : b[k] \notin WhiteSpace

\* the number of blocks of a record that have a status line
LinesDue(raw) ==
    IF Meaningless(raw) THEN 0
    ELSE Cardinality({k \in 1..Len(BlockTexts(raw)) : ShowsLine(BlockTexts(raw)[k])})

\* what the reader is about to push after the step
ToPush == reader'.stdout.rest

\* a record gives one line, or none when it is meaningless
OneLinePerRecord ==
    RecordRead => Len(ToPush) = (IF Meaningless(RecordTaken) THEN 0 ELSE 1)

\* a record gives one line for each of its blocks that has one
OneLinePerBlock == RecordRead => Len(ToPush) = LinesDue(RecordTaken)

\* the beginnings of the lines that formatToolUse makes
ToolPrefixes == {"Reading ", "Editing ", "Writing ", "Running: ", "Tool: ", "Tool: Glob",
                 "Tool: Grep"}

\* a derived line: made by formatToolUse, or a trimmed line of the text
DerivedLine(l, raw) ==
    /\ l # <<>>
    /\ l # raw
    /\ \/ l[1] \in ToolPrefixes /\ Len(l) <= CommandMax + 1
       \/ /\ TrimSpace(l) = l
          /\ \A k \in 1..Len(l) : l[k] # "\n" /\ \E j \in 1..Len(raw) : raw[j] = l[k]

\* every line about to be pushed is derived from the record
LinesDerived ==
    RecordRead => \A k \in 1..Len(ToPush) : DerivedLine(ToPush[k], RecordTaken)

\* no line pushed is the text of a record
RawNeverPushed ==
    \A i \in 1..Len(pushed), j \in 1..Len(written.stdout) :
        pushed[i].by = "stdout" => pushed[i].line # written.stdout[j]

\* a reader that has returned has read all the records
ReaderNotStopped == reader.stdout.pc = "done" => pipe.stdout = <<>>

\* C32 as stated: each record read from the child gives a single derived
\* status line to the rolling buffer, none when it is malformed, not an
\* assistant turn or without a message, and such a record does not stop the
\* reader; the text of the record is never pushed
C32_SingleLinePerRecord ==
    /\ [](RawNeverPushed /\ ReaderNotStopped)
    /\ [][OneLinePerRecord /\ LinesDerived]_vars

\* C32 amended: each record gives one derived status line for each tool_use
\* block and each text block with a non-blank line of an assistant message,
\* none when the record is empty, malformed, not an assistant turn, without
\* a message or without such a block, and such a record does not stop the
\* reader; the text of the record is never pushed
C32_OneLinePerContentBlock ==
    /\ [](RawNeverPushed /\ ReaderNotStopped)
    /\ [][OneLinePerBlock /\ LinesDerived]_vars

\* the reader has gone past a line that is not JSON and has pushed the two
\* lines of the record after it
C32_Witness ==
    /\ written.stdout = <<Malformed, TextAndToolUse>>
    /\ reader.stdout.pc = "done"
    /\ lines = << <<"o", "k">>, <<"Reading ", "f">> >>

----------------------------------------------------------------------------
(* C33: what is forwarded to the orchestrator's output *)

\* the lines the reader of stream s has taken from the pipe
LinesRead(s) == SubSeq(written[s], 1, Len(written[s]) - Len(pipe[s]))

\* the line in the hands of the reader of s is not yet written out
ToForward(s) == IF reader[s].pc = "tee" THEN 1 ELSE 0

\* the line in the hands of the reader of s is not yet pushed
ToBePushed(s) == IF reader[s].pc \in {"tee", "push"} THEN 1 ELSE 0

\* without live status, what is forwarded of s are the lines read from s, in
\* their order, and each is pushed after it is forwarded
ForwardedThenPushed ==
    mode = "headless" =>
        \A s \in Streams :
            /\ forwarded[s] = SubSeq(LinesRead(s), 1, Len(LinesRead(s)) - ToForward(s))
            /\ PushedBy(s) = SubSeq(LinesRead(s), 1, Len(LinesRead(s)) - ToBePushed(s))

\* with live status nothing is forwarded
NothingForwardedLive == mode # "headless" => forwarded = NoOutput

\* a line is pushed only after it was forwarded
PushFollowsForward ==
    (mode = "headless" /\ pushed' # pushed) =>
        \A s \in Streams :
            PushedBy(s)' # PushedBy(s) => forwarded[s] = Append(PushedBy(s), Head(reader[s].rest))

\* C33: without live status every line read from the child's stdout is
\* written to the orchestrator's stdout and every line read from its stderr
\* to the orchestrator's stderr, each then pushed into the rolling buffer, in
\* the order of its stream; with live status no line of the child is forwarded
C33_ForwardedVerbatim ==
    /\ [](ForwardedThenPushed /\ NothingForwardedLive)
    /\ [][PushFollowsForward]_vars

\* both streams of a finished child forwarded and pushed, a blank line among
\* them
C33_Witness ==
    /\ mode = "headless"
    /\ Len(written.stdout) = MaxLines
    /\ \E i \in 1..Len(written.stdout) : written.stdout[i] = <<" ">>
    /\ forwarded.stdout = written.stdout
    /\ written.stderr # <<>>
    /\ forwarded.stderr = written.stderr
    /\ Len(pushed) = Len(written.stdout) + Len(written.stderr)
    /\ runResult.returned

----------------------------------------------------------------------------
(* C34: Run and the readers it has started *)

\* a reader of s has not returned and there is output it has not read
UnreadOutput(s) == reader[s].pc \notin {"off", "done"} /\ pipe[s] # <<>>

\* C34: the return of Run waits for the exit of the child and for nothing
\* else: whatever the readers are doing, cmd.Wait can return once the child
\* has exited and Run can show the final indicator and return after it
C34_ReturnWaitsForExitOnly ==
    /\ (runPc = "wait" /\ cmd.state = "exited") => ENABLED WaitReturns
    /\ (runPc = "wait" /\ cmd.state # "exited") => ~ENABLED WaitReturns
    /\ runPc = "cancelled" => ENABLED ShowFinal

\* Run has returned and a reader of the finished child has output to read
C34_Witness ==
    /\ runResult.returned
    /\ cmd.state = "exited"
    /\ \E s \in Streams : UnreadOutput(s) /\ reader[s].pc = "scan"

----------------------------------------------------------------------------
(* C35: the order of the phases of a story iteration *)

StoryPhases == {"create-story", "dev-story", "code-review"}

\* the phase that comes before a phase of the pipeline
PhaseBefore(phase) == IF phase = "code-review" THEN "dev-story" ELSE "create-story"

\* a phase is entered from the phase before it when that one returned nil,
\* and the first from the head of the loop
PhaseEntered ==
    (pc' \in StoryPhases /\ pc' # pc) =>
        IF pc' = "create-story" THEN pc = "loop"
        ELSE pc = PhaseBefore(pc') /\ agentRun = "nil"

\* an agent is started for a phase only when no run of a phase is pending
PhaseStartedAlone ==
    (pc \in StoryPhases /\ agentRun' = "started") => agentRun = "none"

\* the snapshot and the story of the iteration stay through the phases
SnapshotThroughPhases ==
    (pc \in StoryPhases /\ pc' \in StoryPhases) =>
        statusData' = statusData /\ work' = work

\* the step in which the stall detection of a story iteration is evaluated:
\* the counters are set, the loop goes on or the stall ends it
StoryCompared ==
    /\ pc \in StoryPhases
    /\ \/ stallCount' # stallCount
       \/ lastStalledStory' # lastStalledStory
       \/ pc' = "loop"
       \/ result'.err = "stall detected"

\* the comparison comes after a code-review that returned nil
ComparedAfterReview == StoryCompared => pc = "code-review" /\ agentRun = "nil"

\* C35: in every story iteration of run auto the phases run in the order
\* create-story, dev-story, code-review, each started only after the one
\* before it returned nil, and the bytes of the file are compared with the
\* snapshot of the start of the iteration only after code-review returned nil
C35_PhasesInOrder ==
    [][PhaseEntered /\ PhaseStartedAlone /\ SnapshotThroughPhases
        /\ ComparedAfterReview]_vars

\* the loop after a story iteration whose three phases returned nil and
\* whose comparison found the file unchanged
C35_Witness ==
    /\ pc = "loop"
    /\ iter = 1
    /\ ~result.returned
    /\ stallCount = 1
    /\ lastStalledStory = Story11a

----------------------------------------------------------------------------
(* C36: the two stages of a planning cycle *)

PlanningStages == {"plan-epic", "sprint-planning"}

\* stage 1 is entered from the head of the loop with the snapshot of the
\* file as it is then, stage 2 from stage 1 when that returned nil
StageEntered ==
    (pc' \in PlanningStages /\ pc' # pc) =>
        IF pc' = "plan-epic"
        THEN pc = "loop" /\ statusData' = statusFile /\ statusFile' = statusFile
        ELSE pc = "plan-epic" /\ agentRun = "nil"

\* the snapshot stays what it was through both stages
SnapshotThroughStages ==
    (pc \in PlanningStages /\ pc' \in PlanningStages) => statusData' = statusData

\* the decision after stage 2: the file as it is then against the snapshot
DecidedOnSnapshot ==
    (PlanningCompletes /\ statusFile.exists) =>
        /\ statusFile' = statusFile
        /\ IF statusFile = statusData
           THEN pc' = "returned" /\ result'.err = ""
           ELSE pc' \in {"loop", "pause"} /\ ~result'.returned

\* a cycle is decided only after stage 2
DecidedAfterStageTwo ==
    (pc \in PlanningStages /\ pc' \in {"loop", "pause"}) => PlanningCompletes

\* C36: a planning cycle runs stage 1 (one epic appended) and then stage 2
\* (sprint-planning), stage 2 only when stage 1 returned nil, and decides
\* changed or unchanged by comparing the file read after stage 2 with the
\* snapshot taken at the start of the iteration, before stage 1
C36_StagesInOrder ==
    [][StageEntered /\ SnapshotThroughStages /\ DecidedOnSnapshot
        /\ DecidedAfterStageTwo]_vars

\* stage 2 has returned nil and the file differs from the snapshot
C36_Witness ==
    /\ pc = "sprint-planning"
    /\ agentRun = "nil"
    /\ ~work.found
    /\ statusData.exists
    /\ statusFile.exists
    /\ statusFile # statusData

----------------------------------------------------------------------------
(* C37: success and the bound of the loop *)

\* this step reports that all work is complete
AllDoneReported == ~result.returned /\ result'.printed = "All work complete!"

\* the iteration under way found no work when it queried NextWork
NoWorkAtStart ==
    \/ InLoop /\ statusFile.exists /\ ~NextWork(statusFile.entries).found
    \/ pc = "sprint-planning" /\ statusData.exists /\ ~work.found

\* no iteration is left: the loop can only return the error of the bound
BoundEndsLoop ==
    (pc = "loop" /\ iter >= ctx.maxIterations /\ pc' # pc) =>
        /\ pc' = "returned"
        /\ result'.err = "max iterations reached"
        /\ result'.printed = ""

\* nil is returned from within an iteration
NilWithinBound == (result.returned /\ result.err = "") => iter < ctx.maxIterations

\* without a positive --max-iterations nothing is run and the error is returned
NothingRunUnbounded ==
    (ctx.maxIterations <= 0) =>
        /\ iter = 0
        /\ agentRun = "none"
        /\ statusData = NoBytes
        /\ result.returned => result.err = "max iterations reached"

\* C37: run auto reports that all work is complete only from an iteration
\* whose query at its start found no work; when the iterations are used up,
\* also by the one that resolved the last story, and when --max-iterations
\* is not positive, it returns the max-iterations error and not nil
C37_SuccessOnlyFromQuery ==
    /\ [](NilWithinBound /\ NothingRunUnbounded)
    /\ [][(AllDoneReported => NoWorkAtStart) /\ BoundEndsLoop]_vars

\* the last permitted iteration has left no work in the file, and the loop
\* has returned the error
C37_Witness ==
    /\ pc = "returned"
    /\ result.err = "max iterations reached"
    /\ iter = ctx.maxIterations
    /\ iter > 0
    /\ stallCount = 0
    /\ statusFile.exists
    /\ statusFile.parses
    /\ ~NextWork(statusFile.entries).found

----------------------------------------------------------------------------
(* C38: the completed epics of the planning prompt *)

\* every story of the group is resolved
FullyDone(g) == CountDone(g.Stories, Len(g.Stories)) = Len(g.Stories)

\* C38: the list of completed epics handed to the stage-1 prompt has exactly
\* the epics that are fully done: every epic all of whose stories are
\* resolved is in it, and no epic with an unresolved story is; stated of
\* the epics that have a story
C38_CompletedEpicsAreFullyDone ==
    ret.op = "completedEpics" =>
        \A i \in 1..Len(EpicGroups(OrderedEntries)) :
            LET g == EpicGroups(OrderedEntries)[i]
            IN  Len(g.Stories) > 0 => (g.EpicKey \in ret.list <=> FullyDone(g))

----------------------------------------------------------------------------
(* C39: NextWork and EpicProgress on the same document *)

\* runAuto has asked for the progress of the epic NextWork returned
WorkProgressCalled == ret.op = "WorkProgress"

\* C39: NextWork and EpicProgress agree on every document: when NextWork
\* returns a story of epic E, EpicProgress(E) has done < total, and when it
\* returns the retrospective of E, EpicProgress(E) has done = total
C39_WorkAgreesWithProgress ==
    WorkProgressCalled =>
        /\ ret.work.action = "story" => ret.out.done < ret.out.total
        /\ ret.work.action = "retrospective" => ret.out.done = ret.out.total
        /\ ret.work.action \in {"story", "retrospective"}

\* the retrospective of an epic with a done and a deferred story is due
\* while the next epic has a story in backlog
C39_Witness ==
    /\ WorkProgressCalled
    /\ ret.work.action = "retrospective"
    /\ ret.out = [done |-> 2, total |-> 2]
    /\ \E i \in 1..Len(OrderedEntries) : OrderedEntries[i].Value = "deferred"

----------------------------------------------------------------------------
(* C40: grouping by position *)

\* the place among the groups of the group that starts at epic position e
GroupIndex(e) == Cardinality({f \in EpicPos : f <= e})

\* the last of a non-empty set of positions
LastPos(S) == CHOOSE p \in S : \A q \in S : q <= p

\* the entries whose key has one of the three shapes
IsShaped(x) == Shape[x.Key] # "other"

\* every story and retrospective entry after an epic key is in the group of
\* the nearest epic key before it, whatever the numbers in its key
GroupedByPosition(groups) ==
    \A p \in Dom :
        Owner(p) # 0 =>
            LET g == groups[GroupIndex(Owner(p))]
            IN  /\ g.EpicKey = KeyAt(Owner(p))
                /\ Shape[KeyAt(p)] = "story" =>
                       \E j \in 1..Len(g.Stories) : g.Stories[j] = OrderedEntries[p]
                /\ Shape[KeyAt(p)] = "retrospective" => g.RetroKey # <<>>

\* the retrospective of a group is the last retrospective entry in it
LastRetrospective(groups) ==
    \A e \in EpicPos :
        LET g == groups[GroupIndex(e)]
        IN  IF RetroPos(e) = {} THEN g.RetroKey = <<>> /\ g.RetroStatus = ""
            ELSE /\ g.RetroKey = KeyAt(LastPos(RetroPos(e)))
                 /\ g.RetroStatus = ValAt(LastPos(RetroPos(e)))

\* the entries of no shape change nothing: the groups are those of the
\* document without them
OthersIgnored(groups) == groups = EpicGroups(SelectSeq(OrderedEntries, IsShaped))

\* C40: grouping is by position alone: every story-shaped and
\* retrospective-shaped entry goes to the nearest epic entry before it
\* whatever the numbers in its key, a group has at most one retrospective,
\* the last in document order when several fall in it, and an entry of none
\* of the three shapes changes no group
C40_GroupedByPositionAlone ==
    EpicGroupsCalled =>
        /\ Len(lastGroups.groups) = Cardinality(EpicPos)
        /\ GroupedByPosition(lastGroups.groups)
        /\ LastRetrospective(lastGroups.groups)
        /\ OthersIgnored(lastGroups.groups)

\* the group of epic-2 holds story 1-1-a and, of the two retrospectives
\* written in it, the later one, that of epic-1
C40_Witness ==
    /\ EpicGroupsCalled
    /\ Len(OrderedEntries) = 4
    /\ OrderedEntries[1].Key = Epic2
    /\ Len(lastGroups.groups) = 1
    /\ Len(lastGroups.groups[1].Stories) = 1
    /\ lastGroups.groups[1].Stories[1].Key = Story11a
    /\ Cardinality(RetroPos(1)) = 2
    /\ lastGroups.groups[1].RetroKey = Retro1

====
